---- MODULE Spec2Model ----
(***************************************************************************)
(* Worker process and Process Handle of eve_rl/agent/singelagentprocess.py *)
(* (run, SingleAgentProcess), driving the Local Agent of agent/single.py,  *)
(* and the Parallel Orchestrator of stacierl/agent/parallelagent.py.       *)
(*                                                                         *)
(* Spec    : one Process Handle and its worker process (eve_rl).           *)
(* FairSpec: Spec, with the supervisor thread always making progress.      *)
(* FairWorkerSpec: Spec, with the worker process always making progress.   *)
(* FairHandleSpec: Spec, with the worker and a waiting get() progressing.  *)
(* SpecPar : the Parallel Orchestrator and its workers (stacierl).         *)
(* SpecSplit : the orchestrator's budget split, over drawn budgets.        *)
(* SpecAgent : one Local Agent (stacierl/agent/single.py) and its methods. *)
(* SpecTraining: one Local Agent that collects and updates, its replay     *)
(*               buffer handed in with some transitions.                   *)
(* SpecReader: a Local Agent training while its counters are read.         *)
(* SpecCounters: a Local Agent training while its counters are assigned.   *)
(* SpecHeatup: a heatup fanned out to every Local Agent, then merged.      *)
(* SpecEpisode: Single._play_episode, one episode after the other.         *)
(***************************************************************************)
EXTENDS Integers, Sequences, FiniteSets, TLC

\* Bounds of the model.
MaxOps == 2          \* tasks the supervisor enqueues over a run
MaxUpdateSteps == 2  \* largest step budget of an update task
MaxCloses == 2       \* close() calls made by the supervisor's caller
NAgents == 2         \* n_agents of the Parallel Orchestrator
MaxRounds == 2       \* operations the orchestrator's caller makes
MaxSplitAgents == 3  \* largest n_agents the budget split is applied to
MaxSplitBudget == 6  \* largest finite budget the split is applied to
MaxBudget == 2       \* largest steps / episodes budget of a Local Agent call
MaxEpisodeSteps == 2 \* most env.step calls of one episode
MaxCalls == 2        \* method calls made on one Local Agent
MaxSeeds == 2        \* longest seeds / options list given to evaluate
MaxSets == 1         \* counter assignments made through the handle
MaxConsecutive == 2  \* largest consecutive_action_steps
MaxEnvSteps == 3     \* the step on which the environment truncates at the latest
MaxEpisodes == 2     \* episodes played one after the other
ReplayCapacity == 3  \* capacity of the replay buffer
BatchSize == 2       \* replay_buffer.batch_size

VARIABLES
    \* ---- shared between supervisor and worker (mp.Queue, mp.Event)
    task_queue,      \* self._task_queue
    result_queue,    \* self._result_queue
    model_queue,     \* self._model_queue
    shutdown,        \* self._shutdown
    is_shutdown,     \* self._is_shutdown
    \* ---- the worker process (function run)
    w_pc,            \* position of the worker in run
    exitcode,        \* self._process.exitcode: "None", "0", "1" or "-9"
    task,            \* the task being dispatched
    results,         \* len(results) inside Single.update: metrics so far
    w_closed,        \* channels closed by the worker: subset of Channels
    params,          \* algo's state per component
    half_applied,    \* a load_state_dicts_* call is between start and end
    log,             \* what logger.warning recorded: exceptions, in order
    \* ---- the Process Handle (class SingleAgentProcess), supervisor side
    s_pc,            \* position of the supervisor thread
    process,         \* self._process: "Process" or "None"
    s_closed,        \* the supervisor's queue objects are closed
    s_req,           \* the model-state request being served
    s_ret,           \* what the last get_result or state_dicts_* call returned
    s_raised,        \* the handle call that let an exception escape, or "none"
    n_ops,           \* tasks enqueued so far (the next task's id is n_ops + 1)
    closes,          \* close() calls that returned
    \* ---- history
    issued,          \* ids of the phase tasks enqueued, in order
    received,        \* results get_result returned, in order
    drained,         \* ids of the results the worker's own cleanup removed
    cleared,         \* ids of the results the supervisor's _clear_queues removed
    killed_with,     \* channel contents at the moment of process.kill()
    begun,           \* tasks the worker dequeued after shutdown was set
    \* ---- the Parallel Orchestrator and its workers (stacierl parallelagent.py)
    p_task_queue,    \* agent._task_queue, per agent
    p_result_queue,  \* agent._result_queue, per agent
    p_model_queue,   \* agent._model_queue, per agent
    p_shutdown,      \* agent._shutdown_event, per agent
    p_pc,            \* position of each worker in SingleAgentProcess.run
    p_task,          \* the task each worker is dispatching
    p_at,            \* where each worker is inside the branch of its task
    p_local,         \* each worker's own counters (explore_step_counter, ...)
    p_mirror,        \* each worker's explore_step_counter_mp, ... (mp.Value)
    o_pc,            \* position of the orchestrator
    o_op,            \* the operation the orchestrator is in
    o_i,             \* index of the agent its current loop is at
    o_rounds,        \* operations started so far
    o_log,           \* what the current operation did so far: its puts and gets
    \* ---- the budget split (ParallelAgent._divide_steps_and_episodes, _update)
    d_in,            \* the call: which split, n_agents, steps, episodes
    d_out,           \* what each agent was handed, or the exception raised
    \* ---- the Local Agent (class Single), per agent
    step_counter,    \* self.step_counter: heatup, exploration, evaluation, update
    episode_counter, \* self.episode_counter: heatup, exploration, evaluation
    lock,            \* holder of step_counter.lock and of episode_counter.lock
    replay_len,      \* len(self.replay_buffer)
    replay_too_small,\* self._replay_too_small
    queried,         \* the last update call asked for len(self.replay_buffer)
    a_pc,            \* position of the agent inside the method it runs
    a_call,          \* the method being run and its arguments
    a_limit,         \* step_limit, episode_limit
    seeds,           \* what is left of the seeds list
    options,         \* what is left of the options list
    n_steps_episode, \* steps of the episode just played
    episodes_data,   \* the episodes collected so far: their step counts
    u_results,       \* len(results) inside update: optimisation calls made
    resets,          \* the (seed, options) of every env.reset of this call
    pushed,          \* the episodes this call pushed to the replay buffer
    a_ret,           \* what the last method call returned or raised
    a_start,         \* the counters when the running method was called
    n_calls,         \* method calls made so far
    \* ---- one episode being played (Single._play_episode)
    e_pc,            \* position inside _play_episode
    consecutive_actions, \* its argument
    terminal,        \* terminal, as env.step last returned it
    truncation,      \* truncation, as env.step last returned it
    e_step_counter,  \* its local step_counter
    e_i,             \* turns of the for loop made in this block
    env_steps,       \* env.step calls since env.reset
    transitions,     \* episode.add_transition calls on this episode
    stepped_late,    \* env.step was called with terminal or truncation set
    e_ret,           \* the step count returned with the episode
    n_episodes,      \* episodes started so far
    \* ---- the supervisor reading and assigning the shared counters
    r_pc,            \* position of the reader
    r_snap,          \* the counters as the reader saw them
    prefixes,        \* the counters after each prefix of the worker's increments
    n_sets,          \* counter assignments made through the handle
    \* ---- a heatup fanned out by the orchestrator
    h_pc,            \* position of the orchestrator in the heatup
    merged           \* the episode counters of all agents, merged

shared  == <<task_queue, result_queue, model_queue, shutdown, is_shutdown>>
worker  == <<w_pc, exitcode, task, results, w_closed, params, half_applied, log>>
handle  == <<s_pc, process, s_closed, s_req, s_ret, s_raised, n_ops, closes>>
history == <<issued, received, drained, cleared, killed_with, begun>>
eve     == <<shared, worker, handle, history>>
par     == <<p_task_queue, p_result_queue, p_model_queue, p_shutdown, p_pc, p_task,
             p_at, p_local, p_mirror,
             o_pc, o_op, o_i, o_rounds, o_log>>
split   == <<d_in, d_out>>
single  == <<step_counter, episode_counter, lock, replay_len, replay_too_small,
             queried,
             a_pc, a_call, a_limit, seeds, options, n_steps_episode,
             episodes_data, u_results, resets, pushed, a_ret, a_start, n_calls>>
reader  == <<r_pc, r_snap, prefixes, n_sets>>
fanout  == <<h_pc, merged>>
playing == <<e_pc, consecutive_actions, terminal, truncation, e_step_counter, e_i,
             env_steps, transitions, stepped_late, e_ret, n_episodes>>
loc     == <<split, playing, single, reader, fanout>>
vars    == <<eve, par, loc>>

Agents == 1..NAgents

Channels   == {"result", "model", "task"}
PhaseTasks == {"heatup", "explore", "evaluate", "update", "explore_and_update"}
GetTasks   == {"state_dicts_network", "state_dicts_optimizer", "state_dicts_scheduler"}
LoadTasks  == {"load_state_dicts_network", "load_state_dicts_optimizer",
               "load_state_dicts_scheduler"}
Components == {"network", "optimizer", "scheduler"}
\* Messages the handle never builds: an unknown tag, and one whose tag or
\* arguments are missing.
ForeignTasks == {"unknown", "malformed"}
ExcTypes   == {"ValueError", "RuntimeError"}

Component(name) ==
    CASE name \in {"state_dicts_network", "load_state_dicts_network"} -> "network"
      [] name \in {"state_dicts_optimizer", "load_state_dicts_optimizer"} -> "optimizer"
      [] OTHER -> "scheduler"

\* A task message [name, args...]; arg is the step budget of an update, the
\* payload of a load (0: the state the agent was built with), 0 otherwise.
Task(name, id, arg) == [name |-> name, id |-> id, arg |-> arg]
NoTask == Task("none", 0, 0)
ShutdownTask == Task("shutdown", 0, 0)

\* What a task puts on the result channel: a phase outcome or an error value.
Outcome(t, n) == [type |-> "outcome", id |-> t.id, n |-> n, exc |-> "none"]
ErrorValue(t, e) == [type |-> "error", id |-> t.id, n |-> 0, exc |-> e]

\* What a get task puts on the model channel.
StateDicts(t) == [req |-> t.id, comp |-> Component(t.name), val |-> params[Component(t.name)]]

NoValue == [type |-> "none"]

Ids(q) == {q[i].id : i \in 1..Len(q)}

\* A budget or a limit: a number, or unbounded (math.inf in the orchestrator,
\* None in the Local Agent's methods).
Finite(n) == [finite |-> TRUE, n |-> n]
inf == [finite |-> FALSE, n |-> 0]

\* An optional list argument: None, or a list.
None == [given |-> FALSE, list |-> <<>>]
List(l) == [given |-> TRUE, list |-> l]

\* The fields of the counters the Local Agent counts in.
StepFields == {"heatup", "exploration", "evaluation", "update"}
EpisodeFields == {"heatup", "exploration", "evaluation"}

\* StepCounter(), EpisodeCounter(): every field 0.
StepCounter == [f \in StepFields |-> 0]
EpisodeCounter == [f \in EpisodeFields |-> 0]

\* Both counters of agent a, as they are now.
Counters(a) == [episode |-> episode_counter[a], step |-> step_counter[a]]

\* A method call and its arguments; what a method call returned or raised.
Call(method, steps, episodes, s, o) ==
    [method |-> method, steps |-> steps, episodes |-> episodes,
     seeds |-> s, options |-> o]
NoCall == Call("none", inf, inf, None, None)
Returned(method, data) ==
    [method |-> method, kind |-> "list", data |-> data, exc |-> "none"]
Raised(method, e) ==
    [method |-> method, kind |-> "raised", data |-> <<>>, exc |-> e]
NoReturn == [method |-> "none", kind |-> "none", data |-> <<>>, exc |-> "none"]

\* The counters a stacierl worker mirrors for the orchestrator.
MirrorFields == {"explore_step", "explore_episode", "eval_step", "eval_episode",
                 "update_step"}

\* The split that was called, and what it handed to each agent.
SplitCall(op, n_agents, steps, episodes) ==
    [op |-> op, n_agents |-> n_agents, steps |-> steps, episodes |-> episodes]
Handed(shares) == [raised |-> "none", shares |-> shares]
SplitRaised(e) == [raised |-> e, shares |-> <<>>]

\* The state after construction, but for the replay buffer.
InitButReplay ==
    /\ task_queue = <<>> /\ result_queue = <<>> /\ model_queue = <<>>
    /\ shutdown = FALSE /\ is_shutdown = FALSE
    /\ w_pc = "setup" /\ exitcode = "None" /\ task = NoTask /\ results = 0
    /\ w_closed = {} /\ params = [c \in Components |-> 0]
    /\ half_applied = FALSE /\ log = <<>>
    /\ s_pc = "idle" /\ process = "Process" /\ s_closed = FALSE
    /\ s_req = NoTask /\ s_ret = NoValue /\ s_raised = "none"
    /\ n_ops = 0 /\ closes = 0
    /\ issued = <<>> /\ received = <<>> /\ drained = {} /\ cleared = {}
    /\ killed_with = <<>>
    /\ begun = 0
    /\ p_task_queue = [a \in Agents |-> <<>>]
    /\ p_result_queue = [a \in Agents |-> <<>>]
    /\ p_model_queue = [a \in Agents |-> <<>>]
    /\ p_shutdown = [a \in Agents |-> FALSE]
    /\ p_pc = [a \in Agents |-> "loop"]
    /\ p_task = [a \in Agents |-> "none"]
    /\ p_at = [a \in Agents |-> "task"]
    /\ p_local = [a \in Agents |-> [f \in MirrorFields |-> 0]]
    /\ p_mirror = [a \in Agents |-> [f \in MirrorFields |-> 0]]
    /\ o_pc = "idle" /\ o_op = "none" /\ o_i = 1 /\ o_rounds = 0
    /\ o_log = <<>>
    /\ d_in = SplitCall("none", 1, inf, inf) /\ d_out = Handed(<<>>)
    /\ step_counter = [a \in Agents |-> StepCounter]
    /\ episode_counter = [a \in Agents |-> EpisodeCounter]
    /\ lock = [a \in Agents |-> [step |-> "free", episode |-> "free"]]
    /\ replay_too_small = [a \in Agents |-> TRUE]
    /\ queried = [a \in Agents |-> FALSE]
    /\ a_pc = [a \in Agents |-> "idle"]
    /\ a_call = [a \in Agents |-> NoCall]
    /\ a_limit = [a \in Agents |-> [step |-> inf, episode |-> inf]]
    /\ seeds = [a \in Agents |-> None] /\ options = [a \in Agents |-> None]
    /\ n_steps_episode = [a \in Agents |-> 0]
    /\ episodes_data = [a \in Agents |-> <<>>]
    /\ u_results = [a \in Agents |-> 0]
    /\ resets = [a \in Agents |-> <<>>]
    /\ pushed = [a \in Agents |-> <<>>]
    /\ a_ret = [a \in Agents |-> NoReturn]
    /\ a_start = [a \in Agents |-> [episode |-> EpisodeCounter, step |-> StepCounter]]
    /\ n_calls = [a \in Agents |-> 0]
    /\ r_pc = "idle"
    /\ r_snap = [episode |-> EpisodeCounter, step |-> StepCounter]
    /\ prefixes = [a \in Agents |-> {[episode |-> EpisodeCounter, step |-> StepCounter]}]
    /\ n_sets = 0
    /\ h_pc = "idle" /\ merged = EpisodeCounter
    /\ e_pc = "idle" /\ consecutive_actions = 1
    /\ terminal = FALSE /\ truncation = FALSE
    /\ e_step_counter = 0 /\ e_i = 0 /\ env_steps = 0 /\ transitions = 0
    /\ stepped_late = FALSE /\ e_ret = 0 /\ n_episodes = 0

Init ==
    /\ InitButReplay
    /\ replay_len = [a \in Agents |-> 0]

----------------------------------------------------------------------------
(* The worker process: run().                                              *)

\* A handler inside the loop: the exception is put and the loop goes on.
EscapesInsideLoop(e) ==
    /\ log' = Append(log, e)
    /\ result_queue' = Append(result_queue, ErrorValue(task, e))
    /\ w_pc' = "loop"

\* except Exception (the loop boundary): log, put the exception on the
\* result channel, leave the loop.
Escapes(e) ==
    /\ log' = Append(log, e)
    /\ result_queue' = Append(result_queue, ErrorValue(task, e))
    /\ w_pc' = "agent_close"

\* A put after which the worker polls again without testing the signal.
PutResultAndPoll(r) ==
    /\ result_queue' = Append(result_queue, r)
    /\ w_pc' = "get"

\* result_queue.put(result) at the bottom of the loop.
PutResult(r) ==
    /\ result_queue' = Append(result_queue, r)
    /\ w_pc' = "loop"

\* Per-process setup inside the try. It may fail before `logger` is bound
\* (the handler's logger.warning then raises and the process dies), or in
\* Single(...) (the handler puts the exception; agent.close() then raises on
\* the unbound `agent` and the process dies).
WorkerSetup ==
    /\ w_pc = "setup"
    /\ \/ /\ w_pc' = "loop"
          /\ UNCHANGED <<exitcode, result_queue, log>>
       \/ /\ w_pc' = "exited" /\ exitcode' = "1"
          /\ UNCHANGED <<result_queue, log>>
       \/ \E e \in ExcTypes :
             /\ log' = Append(log, e)
             /\ result_queue' = Append(result_queue, ErrorValue(NoTask, e))
             /\ w_pc' = "exited" /\ exitcode' = "1"
    /\ UNCHANGED <<task_queue, model_queue, shutdown, is_shutdown, task, results,
                   w_closed, params, half_applied, handle, history>>
    /\ UNCHANGED <<par, loc>>

\* while not shutdown.is_set():
WorkerLoop ==
    /\ w_pc = "loop"
    /\ w_pc' = IF shutdown THEN "agent_close" ELSE "get"
    /\ UNCHANGED <<shared, exitcode, task, results, w_closed, params, half_applied,
                   log, handle, history>>
    /\ UNCHANGED <<par, loc>>

\* A dispatch whose shutdown branch would fall through to the phase tasks'
\* result_queue.put(result).
DispatchShutdownAsPhase(name) ==
    CASE name \in {"heatup", "explore", "evaluate", "explore_and_update", "shutdown"} -> "run"
      [] name = "update" -> "update"
      [] name \in GetTasks -> "state_dicts"
      [] name \in LoadTasks -> "load"
      [] name = "malformed" -> "malformed"
      [] OTHER -> "loop"

\* A dispatch whose final else would report the unknown tag as an error.
DispatchUnknownAsError(name) ==
    CASE name \in {"heatup", "explore", "evaluate", "explore_and_update"} -> "run"
      [] name = "update" -> "update"
      [] name \in GetTasks -> "state_dicts"
      [] name \in LoadTasks -> "load"
      [] name = "shutdown" -> "agent_close"
      [] OTHER -> "malformed"

\* The position a received task is dispatched to: the branch of its tag; a
\* message whose tag or arguments cannot be read raises where they are read;
\* any other tag reaches the final else: continue.
Dispatch(name) ==
    CASE name \in {"heatup", "explore", "evaluate", "explore_and_update"} -> "run"
      [] name = "update" -> "update"
      [] name \in GetTasks -> "state_dicts"
      [] name \in LoadTasks -> "load"
      [] name = "shutdown" -> "agent_close"
      [] name = "malformed" -> "malformed"
      [] OTHER -> "loop"

\* task = task_queue.get() with no timeout: it returns only with a task.
WorkerGetBlocking ==
    /\ w_pc = "get"
    /\ task_queue /= <<>>
    /\ task' = Head(task_queue)
    /\ begun' = IF shutdown THEN begun + 1 ELSE begun
    /\ task_queue' = Tail(task_queue)
    /\ w_pc' = Dispatch(Head(task_queue).name)
    /\ results' = 0
    /\ UNCHANGED <<result_queue, model_queue, shutdown, is_shutdown, exitcode,
                   w_closed, params, half_applied, log, handle, issued, received,
                   drained, cleared, killed_with>>
    /\ UNCHANGED <<par, loc>>

\* task = task_queue.get(timeout=1); queue.Empty: continue.
WorkerGet ==
    /\ w_pc = "get"
    /\ IF task_queue = <<>>
       THEN /\ w_pc' = "loop"
            /\ UNCHANGED <<task_queue, task, begun>>
       ELSE /\ task' = Head(task_queue)
            /\ task_queue' = Tail(task_queue)
            /\ w_pc' = Dispatch(Head(task_queue).name)
            /\ begun' = IF shutdown THEN begun + 1 ELSE begun
    /\ results' = 0
    /\ UNCHANGED <<result_queue, model_queue, shutdown, is_shutdown, exitcode,
                   w_closed, params, half_applied, log, handle, issued, received,
                   drained, cleared, killed_with>>
    /\ UNCHANGED <<par, loc>>

\* task[0], len(task) or task[k] on a message that lacks them (an empty list,
\* a known tag without its arguments): IndexError, caught at the loop boundary.
WorkerMalformed ==
    /\ w_pc = "malformed"
    /\ Escapes("IndexError")
    /\ UNCHANGED <<task_queue, model_queue, shutdown, is_shutdown, exitcode, task,
                   results, w_closed, params, half_applied, handle, history>>
    /\ UNCHANGED <<par, loc>>

\* An explore_and_update that is over after its explore: the episodes are
\* the result.
ExploreOnly ==
    /\ PutResult(Outcome(task, 0))
    /\ UNCHANGED log

\* agent.explore_and_update, once its explore is through: the update follows
\* on the same agent, and the two lists are returned as one result.
ExploreAndUpdate ==
    /\ w_pc' = "update"
    /\ UNCHANGED <<result_queue, log>>

\* agent.heatup / explore / evaluate, and the explore part of
\* explore_and_update: runs to completion or raises.
WorkerRun ==
    /\ w_pc = "run"
    /\ \/ /\ task.name /= "explore_and_update"
          /\ PutResult(Outcome(task, 0))
          /\ UNCHANGED log
       \/ /\ task.name = "explore_and_update"
          /\ ExploreAndUpdate
       \/ \E e \in ExcTypes : Escapes(e)
    /\ UNCHANGED <<task_queue, model_queue, shutdown, is_shutdown, exitcode, task,
                   results, w_closed, params, half_applied, handle, history>>
    /\ UNCHANGED <<par, loc>>

\* The update branch's handler without its shutdown.set().
UpdateErrorNoSignal(e) ==
    /\ log' = Append(log, e)
    /\ UNCHANGED shutdown
    /\ PutResult(ErrorValue(task, e))

\* except ValueError as error (update branch): log, shutdown.set(),
\* result = error; the result is then put at the bottom of the loop.
UpdateError(e) ==
    /\ log' = Append(log, e)
    /\ shutdown' = TRUE
    /\ PutResult(ErrorValue(task, e))

\* agent.update, and the update part of explore_and_update (Single.update):
\* an empty result when the replay buffer is too small or the budget is 0,
\* else one algo.update(batch) per step, each of which may raise. In the
\* update branch a ValueError is caught: shutdown.set(), result = error.
WorkerUpdate ==
    /\ w_pc = "update"
    /\ \/ /\ results = 0
          /\ PutResult(Outcome(task, 0))
          /\ UNCHANGED <<results, shutdown, log>>
       \/ /\ results < task.arg
          /\ results' = results + 1
          /\ UNCHANGED <<w_pc, result_queue, shutdown, log>>
       \/ /\ results < task.arg
          /\ \E e \in ExcTypes :
                IF task.name = "update" /\ e = "ValueError"
                THEN UpdateError(e)
                ELSE /\ Escapes(e)
                     /\ UNCHANGED shutdown
          /\ UNCHANGED results
       \/ /\ results = task.arg /\ task.arg > 0
          /\ PutResult(Outcome(task, results))
          /\ UNCHANGED <<results, shutdown, log>>
    /\ UNCHANGED <<task_queue, model_queue, is_shutdown, exitcode, task,
                   w_closed, params, half_applied, handle, history>>
    /\ UNCHANGED <<par, loc>>

\* A state_dicts_* branch without its `continue`: it falls through to
\* result_queue.put(result).
PutStateDictsFallThrough ==
    /\ model_queue' = Append(model_queue, StateDicts(task))
    /\ PutResult(Outcome(task, 0))
    /\ UNCHANGED log

\* state_dicts = agent.algo.state_dicts_*(); model_queue.put(state_dicts);
\* continue
PutStateDicts ==
    /\ model_queue' = Append(model_queue, StateDicts(task))
    /\ w_pc' = "loop"
    /\ UNCHANGED <<result_queue, log>>

\* state_dicts_network / _optimizer / _scheduler
WorkerStateDicts ==
    /\ w_pc = "state_dicts"
    /\ \/ PutStateDicts
       \/ /\ \E e \in ExcTypes : Escapes(e)
          /\ UNCHANGED model_queue
    /\ UNCHANGED <<task_queue, shutdown, is_shutdown, exitcode, task, results,
                   w_closed, params, half_applied, handle, history>>
    /\ UNCHANGED <<par, loc>>

\* A load that would go on in the background while the worker is back at
\* its loop.
EnterLoadDetached ==
    /\ half_applied' = TRUE
    /\ w_pc' = "loop"
    /\ UNCHANGED <<result_queue, log>>

\* The call agent.algo.load_state_dicts_*(state_dicts) is entered: the
\* worker stays in it until the payload is installed.
EnterLoad ==
    /\ half_applied' = TRUE
    /\ w_pc' = "loading"
    /\ UNCHANGED <<result_queue, log>>

\* load_state_dicts_*: agent.algo.load_state_dicts_*(task[1]) starts to
\* install the payload, or raises before it changed anything.
WorkerLoadBegin ==
    /\ w_pc = "load"
    /\ \/ EnterLoad
       \/ /\ \E e \in ExcTypes : Escapes(e)
          /\ UNCHANGED half_applied
    /\ UNCHANGED <<task_queue, model_queue, shutdown, is_shutdown, exitcode, task,
                   results, w_closed, params, handle, history>>
    /\ UNCHANGED <<par, loc>>

\* A load_state_dicts_* branch that would also answer on the model channel.
LoadedAndPut ==
    /\ params' = [params EXCEPT ![Component(task.name)] = task.arg]
    /\ half_applied' = FALSE
    /\ w_pc' = "loop"
    /\ model_queue' = Append(model_queue, StateDicts(task))
    /\ UNCHANGED <<result_queue, log>>

\* The payload is installed; del state_dicts; continue.
Loaded ==
    /\ params' = [params EXCEPT ![Component(task.name)] = task.arg]
    /\ half_applied' = FALSE
    /\ w_pc' = "loop"
    /\ UNCHANGED <<model_queue, result_queue, log>>

\* ... and finishes installing it, or raises half way.
WorkerLoadEnd ==
    /\ w_pc = "loading"
    /\ \/ Loaded
       \/ /\ \E e \in ExcTypes : Escapes(e)
          /\ UNCHANGED <<params, half_applied, model_queue>>
    /\ UNCHANGED <<task_queue, shutdown, is_shutdown, exitcode, task,
                   results, w_closed, handle, history>>
    /\ UNCHANGED <<par, loc>>

\* agent.close() after the loop.
WorkerAgentClose ==
    /\ w_pc = "agent_close"
    /\ w_pc' = "drain_result"
    /\ UNCHANGED <<shared, exitcode, task, results, w_closed, params, half_applied,
                   log, handle, history>>
    /\ UNCHANGED <<par, loc>>

\* for queue_ in [result_queue, model_queue, task_queue]:
\*     get_nowait() until queue.Empty, then queue_.close()
WorkerDrainResult ==
    /\ w_pc = "drain_result"
    /\ result_queue' = <<>>
    /\ drained' = drained \cup Ids(result_queue)
    /\ w_closed' = w_closed \cup {"result"}
    /\ w_pc' = "drain_model"
    /\ UNCHANGED <<task_queue, model_queue, shutdown, is_shutdown, exitcode, task,
                   results, params, half_applied, log, handle, issued, received,
                   cleared, killed_with, begun>>
    /\ UNCHANGED <<par, loc>>

WorkerDrainModel ==
    /\ w_pc = "drain_model"
    /\ model_queue' = <<>>
    /\ w_closed' = w_closed \cup {"model"}
    /\ w_pc' = "drain_task"
    /\ UNCHANGED <<task_queue, result_queue, shutdown, is_shutdown, exitcode, task,
                   results, params, half_applied, log, handle, history>>
    /\ UNCHANGED <<par, loc>>

WorkerDrainTask ==
    /\ w_pc = "drain_task"
    /\ task_queue' = <<>>
    /\ w_closed' = w_closed \cup {"task"}
    /\ w_pc' = "set_flag"
    /\ UNCHANGED <<result_queue, model_queue, shutdown, is_shutdown, exitcode, task,
                   results, params, half_applied, log, handle, history>>
    /\ UNCHANGED <<par, loc>>

\* is_shutdown.set(): the last statement of run.
WorkerSetFlag ==
    /\ w_pc = "set_flag"
    /\ is_shutdown' = TRUE
    /\ w_pc' = "return"
    /\ UNCHANGED <<task_queue, result_queue, model_queue, shutdown, exitcode, task,
                   results, w_closed, params, half_applied, log, handle, history>>
    /\ UNCHANGED <<par, loc>>

\* run has returned: the process exits.
WorkerExit ==
    /\ w_pc = "return"
    /\ w_pc' = "exited"
    /\ exitcode' = "0"
    /\ UNCHANGED <<shared, task, results, w_closed, params, half_applied, log,
                   handle, history>>
    /\ UNCHANGED <<par, loc>>

Worker ==
    \/ WorkerSetup \/ WorkerLoop \/ WorkerGet \/ WorkerMalformed \/ WorkerRun
    \/ WorkerUpdate
    \/ WorkerStateDicts \/ WorkerLoadBegin \/ WorkerLoadEnd
    \/ WorkerAgentClose \/ WorkerDrainResult \/ WorkerDrainModel
    \/ WorkerDrainTask \/ WorkerSetFlag \/ WorkerExit

----------------------------------------------------------------------------
(* The Process Handle: class SingleAgentProcess, called by the supervisor. *)

\* is_alive()
IsAlive == process /= "None" /\ w_pc /= "exited"

\* close() without its guard.
CloseGuardMissing == TRUE

\* close(): if self._process is not None and self._process.is_alive():

CloseGuard == process /= "None" /\ w_pc /= "exited"

\* close() entered from a handler `except ValueError: self.close()`: it runs
\* the protocol when the guard holds and returns at once otherwise.
CloseFromHandler ==
    IF CloseGuard
    THEN shutdown' = TRUE /\ s_pc' = "close_put"
    ELSE UNCHANGED <<shutdown, s_pc>>

\* The arguments a task of this name is enqueued with.
Args(name) ==
    CASE name \in {"update", "explore_and_update"} -> 0..MaxUpdateSteps
      [] OTHER -> {0}

\* heatup / explore / evaluate / update / explore_and_update: put the task.
\* All but heatup wrap the put in try / except ValueError: self.close().
PhaseCall(name) ==
    /\ s_pc = "idle" /\ n_ops < MaxOps
    /\ IF s_closed
       THEN /\ IF name = "heatup"
               THEN s_raised' = "heatup" /\ UNCHANGED <<shutdown, s_pc>>
               ELSE CloseFromHandler /\ UNCHANGED s_raised
            /\ UNCHANGED <<task_queue, n_ops, issued>>
       ELSE /\ \E arg \in Args(name) :
                  task_queue' = Append(task_queue, Task(name, n_ops + 1, arg))
            /\ n_ops' = n_ops + 1
            /\ issued' = Append(issued, n_ops + 1)
            /\ UNCHANGED <<shutdown, s_pc, s_raised>>
    /\ UNCHANGED <<result_queue, model_queue, is_shutdown, worker, process, s_closed,
                   s_req, s_ret, closes, received, drained, cleared, killed_with, begun>>
    /\ UNCHANGED <<par, loc>>

\* A get_result whose timeout would be handled like a closed channel.
GetResultClosingOnTimeout ==
    /\ s_pc = "idle"
    /\ IF s_closed \/ result_queue = <<>>
       THEN /\ CloseFromHandler
            /\ s_ret' = [type |-> "list"]
            /\ UNCHANGED <<result_queue, received>>
       ELSE /\ received' = Append(received, Head(result_queue))
            /\ result_queue' = Tail(result_queue)
            /\ s_ret' = [type |-> "result"]
            /\ UNCHANGED <<shutdown, s_pc>>
    /\ UNCHANGED <<task_queue, model_queue, is_shutdown, worker, process, s_closed,
                   s_req, s_raised, n_ops, closes, issued, drained, cleared,
                   killed_with, begun>>
    /\ UNCHANGED <<par, loc>>

\* get_result(timeout): the next result (received records it), the
\* queue.Empty instance after the timeout, or [] after close() when the
\* queue object is closed.
GetResult ==
    /\ s_pc = "idle"
    /\ IF s_closed
       THEN /\ CloseFromHandler
            /\ s_ret' = [type |-> "list"]
            /\ UNCHANGED <<result_queue, received>>
       ELSE IF result_queue = <<>>
       THEN /\ s_ret' = [type |-> "Empty"]
            /\ UNCHANGED <<result_queue, received, shutdown, s_pc>>
       ELSE /\ received' = Append(received, Head(result_queue))
            /\ result_queue' = Tail(result_queue)
            /\ s_ret' = [type |-> "result"]
            /\ UNCHANGED <<shutdown, s_pc>>
    /\ UNCHANGED <<task_queue, model_queue, is_shutdown, worker, process, s_closed,
                   s_req, s_raised, n_ops, closes, issued, drained, cleared,
                   killed_with, begun>>
    /\ UNCHANGED <<par, loc>>

\* state_dicts_network / _optimizer / _scheduler: put the request, then
\* self._model_queue.get() (blocking, no timeout).
StateDictsCall(name) ==
    /\ s_pc = "idle" /\ n_ops < MaxOps
    /\ IF s_closed
       THEN /\ CloseFromHandler
            /\ s_ret' = [type |-> "None"]
            /\ UNCHANGED <<task_queue, n_ops, s_req>>
       ELSE /\ task_queue' = Append(task_queue, Task(name, n_ops + 1, 0))
            /\ n_ops' = n_ops + 1
            /\ s_req' = Task(name, n_ops + 1, 0)
            /\ s_pc' = "model_get"
            /\ s_ret' = NoValue
            /\ UNCHANGED shutdown
    /\ UNCHANGED <<result_queue, model_queue, is_shutdown, worker, process, s_closed,
                   s_raised, closes, history>>
    /\ UNCHANGED <<par, loc>>

StateDictsReturn ==
    /\ s_pc = "model_get"
    /\ model_queue /= <<>>
    /\ s_ret' = [type |-> "state_dicts", of |-> Head(model_queue)]
    /\ model_queue' = Tail(model_queue)
    /\ s_pc' = "idle"
    /\ UNCHANGED <<task_queue, result_queue, shutdown, is_shutdown, worker, process,
                   s_closed, s_req, s_raised, n_ops, closes, history>>
    /\ UNCHANGED <<par, loc>>

\* load_state_dicts_network / _optimizer / _scheduler: fire and forget. The
\* payload is named by the call that sent it, so that no two are alike.
LoadStateDictsCall(name) ==
    /\ s_pc = "idle" /\ n_ops < MaxOps
    /\ IF s_closed
       THEN /\ CloseFromHandler
            /\ UNCHANGED <<task_queue, n_ops>>
       ELSE /\ task_queue' = Append(task_queue, Task(name, n_ops + 1, n_ops + 1))
            /\ n_ops' = n_ops + 1
            /\ UNCHANGED <<shutdown, s_pc>>
    /\ UNCHANGED <<result_queue, model_queue, is_shutdown, worker, process, s_closed,
                   s_req, s_ret, s_raised, closes, history>>
    /\ UNCHANGED <<par, loc>>

\* A message that none of the handle's methods builds, put on the task queue
\* run was given: a tag the dispatch does not know, or a message whose tag
\* or arguments are missing.
PutForeign(name) ==
    /\ s_pc = "idle" /\ n_ops < MaxOps /\ ~s_closed
    /\ task_queue' = Append(task_queue, Task(name, n_ops + 1, 0))
    /\ n_ops' = n_ops + 1
    /\ UNCHANGED <<result_queue, model_queue, shutdown, is_shutdown, worker, s_pc,
                   process, s_closed, s_req, s_ret, s_raised, closes, history>>
    /\ UNCHANGED <<par, loc>>

\* close(), called by the supervisor's caller: the guard; shutdown.set().
Close ==
    /\ s_pc = "idle" /\ closes < MaxCloses
    /\ IF CloseGuard
       THEN shutdown' = TRUE /\ s_pc' = "close_put" /\ UNCHANGED closes
       ELSE closes' = closes + 1 /\ UNCHANGED <<shutdown, s_pc>>
    /\ UNCHANGED <<task_queue, result_queue, model_queue, is_shutdown, worker,
                   process, s_closed, s_req, s_ret, s_raised, n_ops, history>>
    /\ UNCHANGED <<par, loc>>

\* self._task_queue.put(["shutdown"])
ClosePut ==
    /\ s_pc = "close_put"
    /\ IF s_closed
       THEN /\ s_raised' = "close" /\ s_pc' = "idle" /\ closes' = closes + 1
            /\ UNCHANGED task_queue
       ELSE /\ task_queue' = Append(task_queue, ShutdownTask)
            /\ s_pc' = "close_join"
            /\ UNCHANGED <<s_raised, closes>>
    /\ UNCHANGED <<result_queue, model_queue, shutdown, is_shutdown, worker, process,
                   s_closed, s_req, s_ret, n_ops, history>>
    /\ UNCHANGED <<par, loc>>

\* self._process.join() with no timeout: it returns only once the worker
\* has exited.
CloseJoinNoTimeout ==
    /\ s_pc = "close_join"
    /\ exitcode /= "None"
    /\ process' = "None" /\ s_pc' = "idle" /\ closes' = closes + 1
    /\ UNCHANGED <<shared, worker, s_closed, s_req, s_ret, s_raised, n_ops, history>>
    /\ UNCHANGED <<par, loc>>

\* self._process.join(5); exitcode = self._process.exitcode. The worker has
\* exited (release the handle), or the join timed out.
CloseJoin ==
    /\ s_pc = "close_join"
    /\ IF exitcode /= "None"
       THEN process' = "None" /\ s_pc' = "idle" /\ closes' = closes + 1
       ELSE s_pc' = "close_check" /\ UNCHANGED <<process, closes>>
    /\ UNCHANGED <<shared, worker, s_closed, s_req, s_ret, s_raised, n_ops, history>>
    /\ UNCHANGED <<par, loc>>

\* if not self._is_shutdown.is_set(): _clear_queues(); _close_queues()
CloseCheck ==
    /\ s_pc = "close_check"
    /\ IF ~is_shutdown
       THEN /\ cleared' = cleared \cup Ids(result_queue)
            /\ result_queue' = <<>> /\ model_queue' = <<>> /\ task_queue' = <<>>
            /\ s_closed' = TRUE
       ELSE UNCHANGED <<cleared, result_queue, model_queue, task_queue, s_closed>>
    /\ s_pc' = "close_kill"
    /\ UNCHANGED <<shutdown, is_shutdown, worker, process, s_req, s_ret, s_raised,
                   n_ops, closes, issued, received, drained, killed_with, begun>>
    /\ UNCHANGED <<par, loc>>

\* self._process.kill(); join(); self._process.close(); self._process = None
CloseKill ==
    /\ s_pc = "close_kill"
    /\ killed_with' = Append(killed_with,
           [alive |-> w_pc /= "exited", pc |-> w_pc, flag |-> is_shutdown,
            task |-> task_queue, result |-> result_queue, model |-> model_queue])
    /\ IF w_pc /= "exited"
       THEN w_pc' = "exited" /\ exitcode' = "-9"
       ELSE UNCHANGED <<w_pc, exitcode>>
    /\ process' = "None" /\ s_pc' = "idle" /\ closes' = closes + 1
    /\ UNCHANGED <<shared, task, results, w_closed, params, half_applied, log,
                   s_closed, s_req, s_ret, s_raised, n_ops, issued, received,
                   drained, cleared, begun>>
    /\ UNCHANGED <<par, loc>>

CloseStep == ClosePut \/ CloseJoin \/ CloseCheck \/ CloseKill

Supervisor ==
    \/ \E name \in PhaseTasks : PhaseCall(name)
    \/ GetResult
    \/ \E name \in GetTasks : StateDictsCall(name)
    \/ StateDictsReturn
    \/ \E name \in LoadTasks : LoadStateDictsCall(name)
    \/ \E name \in ForeignTasks : PutForeign(name)
    \/ Close
    \/ CloseStep

Next == Worker \/ Supervisor

Spec == Init /\ [][Next]_vars

\* The supervisor thread is never starved inside close().
FairSpec == Spec /\ WF_vars(CloseStep)

\* The worker process is never starved: it keeps being scheduled.
FairWorkerSpec == Spec /\ WF_vars(Worker)

\* Neither the worker process nor a supervisor thread that waits in
\* self._model_queue.get() is starved.
FairHandleSpec == Spec /\ WF_vars(Worker) /\ WF_vars(StateDictsReturn)

----------------------------------------------------------------------------
(* Properties of the Process Handle and its worker.                        *)

ClosePcs == {"close_put", "close_join", "close_check", "close_kill"}
InClose == s_pc \in ClosePcs
\* close() has not been called by anyone so far.
NoCloseCalled == closes = 0 /\ ~InClose

\* What a caller of the handle can observe of the worker and the channels.
Observable ==
    <<w_pc, exitcode, IsAlive, process, w_closed, s_closed, shutdown, is_shutdown,
      task_queue, result_queue, model_queue>>

\* The three channels have been closed, by the worker's cleanup or by the
\* supervisor's forced path.
ChannelsClosed == w_closed = Channels \/ s_closed

CloseReturns ==
    /\ InClose ~> (s_pc = "idle")
    /\ [][(InClose /\ s_pc' = "idle") => w_pc' = "exited"]_vars

\* C2 witness: close() has returned after killing a worker that was inside
\* a phase task.
ClosedWhileInTask ==
    /\ s_pc = "idle" /\ closes = 1
    /\ Len(killed_with) = 1 /\ killed_with[1].pc = "run"

\* C3: whenever close() kills a live worker, the task, result and model
\* channels are all empty at that moment.
KillOnlyWithEmptyChannels ==
    \A i \in 1..Len(killed_with) :
        killed_with[i].alive =>
            /\ killed_with[i].task = <<>>
            /\ killed_with[i].result = <<>>
            /\ killed_with[i].model = <<>>

\* The update task the worker took has failed with a ValueError.
UpdateFailed == task.name = "update" /\ log = <<"ValueError">>

\* The error values of task id that reached, or can still reach, the supervisor.
Delivered(id) ==
    {i \in 1..Len(result_queue) : result_queue[i].id = id} \cup
    {-i : i \in {j \in 1..Len(received) : received[j].id = id}}

\* C4: once an update task has failed with a ValueError, and as long as the
\* supervisor does not call close(), the shutdown signal is set and the
\* result channel holds, or has delivered, exactly one value for that task,
\* an error value.
UpdateFailureSurfaced ==
    (UpdateFailed /\ NoCloseCalled) =>
        /\ shutdown
        /\ Cardinality(Delivered(task.id)) = 1
        /\ \A i \in 1..Len(result_queue) :
              result_queue[i].id = task.id => result_queue[i].type = "error"
        /\ \A i \in 1..Len(received) :
              received[i].id = task.id => received[i].type = "error"

\* The worker's step in which algo.update raises inside an update task.
UpdateRaises ==
    /\ w_pc = "update" /\ task.name = "update"
    /\ Len(log') = Len(log) + 1

\* C5 as claimed: whatever the exception's type, the error value is put on
\* the result channel and the shutdown signal is raised.
AnyUpdateErrorRaisesSignal ==
    [][UpdateRaises =>
          /\ result_queue' = Append(result_queue, ErrorValue(task, log'[Len(log')]))
          /\ shutdown']_vars

\* C5 amended: the error value is put on the result channel whatever the
\* exception's type; the worker raises the shutdown signal for a ValueError
\* and leaves its loop without raising it for any other type.
UpdateErrorHandling ==
    [][UpdateRaises =>
          LET e == log'[Len(log')] IN
          /\ result_queue' = Append(result_queue, ErrorValue(task, e))
          /\ IF e = "ValueError"
             THEN shutdown' /\ w_pc' = "loop"
             ELSE shutdown' = shutdown /\ w_pc' = "agent_close"]_vars

\* C5 witness: a ValueError of an update task was caught and the signal
\* raised, with no close() call involved.
UpdateValueErrorCaught ==
    /\ UpdateFailed /\ NoCloseCalled
    /\ w_pc = "loop" /\ shutdown
    /\ Len(result_queue) > 0
    /\ result_queue[Len(result_queue)] = ErrorValue(task, "ValueError")

\* The results of phase tasks among those get_result returned, in order.
IsPhaseResult(r) == \E k \in 1..Len(issued) : issued[k] = r.id
PhaseReceived == SelectSeq(received, IsPhaseResult)

\* C7: the k-th phase result the supervisor receives is the result of the
\* k-th phase task it enqueued, and, close() aside, nobody but the
\* supervisor takes the result of a phase task off the result channel.
ResultsInOrderNoneLost ==
    /\ Len(PhaseReceived) <= Len(issued)
    /\ \A k \in 1..Len(PhaseReceived) : PhaseReceived[k].id = issued[k]
    /\ NoCloseCalled => \A k \in 1..Len(issued) : issued[k] \notin drained

\* A step of the worker inside a model-state task.
ModelTaskStep ==
    /\ w_pc \in {"state_dicts", "load", "loading"}
    /\ w_pc' /= w_pc
    /\ exitcode' = exitcode

\* C8 as claimed: no step of a model-state task changes the result channel.
ModelTasksNeverUseResultChannel ==
    [][ModelTaskStep => result_queue' = result_queue]_vars

\* C8 amended: a model-state task that does not raise leaves the result
\* channel alone, a get putting exactly one payload on the model channel and
\* a set putting nothing on any channel; one that raises puts exactly one
\* error value on the result channel, nothing on the model channel, and the
\* worker leaves its loop.
ModelTasksUseModelChannel ==
    [][ModelTaskStep =>
          IF Len(log') > Len(log)
          THEN /\ result_queue' = Append(result_queue, ErrorValue(task, log'[Len(log')]))
               /\ model_queue' = model_queue /\ task_queue' = task_queue
               /\ w_pc' = "agent_close"
          ELSE /\ result_queue' = result_queue /\ task_queue' = task_queue
               /\ IF w_pc = "state_dicts"
                  THEN model_queue' = Append(model_queue, StateDicts(task))
                  ELSE model_queue' = model_queue]_vars

\* C8 witness: a get task has put its payload on the model channel and the
\* worker is back in its loop, the result channel still empty.
StateDictsOnModelChannel ==
    /\ w_pc = "loop" /\ task.name \in GetTasks
    /\ Len(model_queue) = 1 /\ model_queue[1].req = task.id
    /\ result_queue = <<>> /\ received = <<>>

\* C9: what a state_dicts_* call returns is the snapshot the worker made for
\* that request: it carries the request's id and component.
StateDictsAnswerOwnRequest ==
    s_ret.type = "state_dicts" =>
        /\ s_ret.of.req = s_req.id
        /\ s_ret.of.comp = Component(s_req.name)

\* C9 witness: a state_dicts_* call has returned the state a preceding
\* load_state_dicts_* call installed.
StateDictsReturnedAfterLoad ==
    /\ s_pc = "idle" /\ s_ret.type = "state_dicts"
    /\ s_ret.of.val > 0

\* C10: while a payload is half applied the worker is inside the load call,
\* or dead: it is not in the optimisation loop of an update, nor back at its
\* loop taking another task.
LoadAtomicForUpdate ==
    half_applied => w_pc \in {"loading", "agent_close", "drain_result", "drain_model",
                              "drain_task", "set_flag", "return", "exited"}

\* C10 witness: an update task's optimisation loop runs on a state that a
\* load_state_dicts_* call has installed completely.
UpdateAfterLoad ==
    /\ w_pc = "update" /\ results > 0
    /\ ~half_applied
    /\ \E c \in Components : params[c] > 0

\* Positions of the worker inside the dispatch of a task, and after its loop.
DispatchPcs == {"malformed", "run", "update", "state_dicts", "load", "loading"}
CleanupPcs == {"agent_close", "drain_result", "drain_model", "drain_task",
               "set_flag", "return", "exited"}

\* A step in which an exception escapes the dispatch: any exception but the
\* ValueError that the update branch handles itself.
EscapesDispatch ==
    /\ w_pc \in DispatchPcs
    /\ Len(log') = Len(log) + 1
    /\ ~(w_pc = "update" /\ task.name = "update" /\ log'[Len(log')] = "ValueError")

\* C11: an exception escaping the dispatch puts exactly one error value on
\* the result channel and ends the loop; once out of its loop the worker
\* takes no task, executes none and puts nothing more on the result channel.
ExceptionEndsLoop ==
    /\ [][EscapesDispatch =>
             (/\ result_queue' = Append(result_queue, ErrorValue(task, log'[Len(log')]))
              /\ w_pc' = "agent_close")]_vars
    /\ [][(w_pc \in CleanupPcs) =>
             (/\ w_pc' \in CleanupPcs
              /\ task' = task /\ params' = params
              /\ Len(result_queue') <= Len(result_queue))]_vars

\* C11 witness: a phase task has raised, the error value is the only result
\* and the worker is out of its loop with another task still queued.
RaisedWithTaskPending ==
    /\ w_pc = "agent_close" /\ log = <<"RuntimeError">>
    /\ task.name \in PhaseTasks
    /\ result_queue = <<ErrorValue(task, "RuntimeError")>>
    /\ task_queue /= <<>>


\* C12: a worker process that has ended by itself, after its loop or after
\* an exception in its setup, has drained and closed all three channels and
\* raised the termination flag; the flag is never raised before the worker
\* has closed all three channels.
LoopExitCleansUp ==
    /\ (w_pc = "exited" /\ exitcode \in {"0", "1"}) =>
           (is_shutdown /\ w_closed = Channels)
    /\ is_shutdown => w_closed = Channels


\* A step of the worker itself (not its being killed) that moves it on.
WorkerMoves == w_pc' /= w_pc /\ exitcode' = exitcode

\* C13: once the shutdown signal is raised, a worker idle in its poll loop
\* with no pending task terminates; a poll that finds no task returns to the
\* loop test, and the loop test leaves the loop once the signal is raised.
ShutdownEndsIdleWorker ==
    /\ (shutdown /\ w_pc \in {"loop", "get"} /\ task_queue = <<>>) ~> (w_pc = "exited")
    /\ [][(w_pc = "get" /\ task_queue = <<>> /\ WorkerMoves) => w_pc' = "loop"]_vars
    /\ [][(w_pc = "loop" /\ shutdown /\ WorkerMoves) => w_pc' = "agent_close"]_vars

\* C13 witness: the worker has left its loop on the signal alone: no task
\* was ever enqueued, the Shutdown task of close() not yet either.
LeftLoopOnSignalAlone ==
    /\ w_pc = "agent_close" /\ shutdown
    /\ task = NoTask /\ task_queue = <<>> /\ n_ops = 0
    /\ s_pc = "close_put"


\* A step of the worker on a foreign message: taking it off the task queue,
\* or reading what a malformed one lacks.
ForeignStep ==
    /\ WorkerMoves
    /\ \/ w_pc = "get" /\ task_queue /= <<>> /\ Head(task_queue).name \in ForeignTasks
       \/ w_pc = "malformed"

\* C14 as claimed: an unknown or malformed task is skipped: nothing is put
\* on the result or model channel, nothing is reported and the worker stays
\* in its loop.
ForeignTaskSkipped ==
    [][ForeignStep =>
          (/\ result_queue' = result_queue /\ model_queue' = model_queue
           /\ log' = log
           /\ w_pc' \in {"loop", "malformed"})]_vars

\* C14 amended: a task with an unknown tag is skipped in silence and the
\* worker is back at its loop; a malformed message raises where the missing
\* part is read: one error value on the result channel, nothing on the model
\* channel, and the worker leaves its loop.
UnknownTagSkipped ==
    [][ForeignStep =>
          IF w_pc = "get"
          THEN /\ result_queue' = result_queue /\ model_queue' = model_queue
               /\ log' = log
               /\ w_pc' = IF Head(task_queue).name = "unknown" THEN "loop" ELSE "malformed"
          ELSE /\ result_queue' = Append(result_queue, ErrorValue(task, "IndexError"))
               /\ model_queue' = model_queue
               /\ log' = Append(log, "IndexError")
               /\ w_pc' = "agent_close"]_vars

\* C14 witness: a task with an unknown tag has been skipped without a trace
\* and the worker is back at its loop with the next task waiting.
UnknownSkippedNextWaiting ==
    /\ w_pc = "loop" /\ task.name = "unknown"
    /\ result_queue = <<>> /\ model_queue = <<>> /\ log = <<>>
    /\ task_queue /= <<>> /\ ~shutdown


\* C15: taking a Shutdown task off the task queue takes the worker out of
\* its loop with nothing put on the result or model channel, and the worker
\* puts nothing for it afterwards.
ShutdownTaskBreaks ==
    /\ [][(w_pc = "get" /\ task_queue /= <<>> /\ Head(task_queue) = ShutdownTask
             /\ WorkerMoves) =>
             (/\ w_pc' = "agent_close" /\ task' = ShutdownTask
              /\ result_queue' = result_queue /\ model_queue' = model_queue
              /\ log' = log)]_vars
    /\ [][(task = ShutdownTask) =>
             (/\ w_pc' \in CleanupPcs
              /\ Len(result_queue') <= Len(result_queue)
              /\ Len(model_queue') <= Len(model_queue))]_vars

\* C15 witness: the worker has taken the Shutdown task and left its loop,
\* the result and model channels empty.
ShutdownTaskTaken ==
    /\ w_pc = "agent_close" /\ task = ShutdownTask
    /\ result_queue = <<>> /\ model_queue = <<>>
    /\ received = <<>>


\* C16: no operation of the handle lets the exception of a closed channel
\* escape to its caller.
ClosedChannelNeverRaises == s_raised = "none"


\* C17: a get_result call that finds no result within its timeout returns
\* the queue.Empty value, lets no exception escape and changes nothing else:
\* the channels, the worker and the handle are as they were.
TimeoutReturnsEmpty ==
    [][(GetResult /\ ~s_closed /\ result_queue = <<>>) =>
          (/\ s_ret'.type = "Empty"
           /\ UNCHANGED <<shared, worker, history>>
           /\ UNCHANGED <<s_pc, process, s_closed, s_req, s_raised, n_ops, closes>>)]_vars

\* C17 witness: get_result has timed out while the worker is inside the
\* phase task whose result the caller waits for.
TimedOutWhileTaskRuns ==
    /\ s_ret.type = "Empty" /\ s_pc = "idle"
    /\ w_pc = "run" /\ task.name \in PhaseTasks
    /\ result_queue = <<>> /\ ~shutdown /\ ~s_closed


\* The worker is running the explore or the update of an explore_and_update.
InExploreAndUpdate ==
    task.name = "explore_and_update" /\ w_pc \in {"run", "update"}

\* C29: an explore_and_update task runs its explore to completion, then its
\* update on the same worker, and puts exactly one result, which holds what
\* both returned; the worker is back in its loop afterwards. Stated of the
\* steps the worker takes inside the task when nothing raises.
ExploreThenUpdateOneResult ==
    [][(/\ InExploreAndUpdate /\ exitcode' = exitcode /\ log' = log
        /\ w_pc' /= w_pc \/ results' /= results) =>
          \/ /\ w_pc = "run" /\ w_pc' = "update"
             /\ result_queue' = result_queue
          \/ /\ w_pc = "update" /\ w_pc' = "update"
             /\ result_queue' = result_queue
          \/ /\ w_pc = "update" /\ w_pc' = "loop"
             /\ result_queue' = Append(result_queue, Outcome(task, results))]_vars

\* The worker is back in its loop after an explore_and_update whose update
\* made optimisation steps, and the one result of the task is on the channel.
ExploreAndUpdateDone ==
    /\ task.name = "explore_and_update" /\ w_pc = "loop"
    /\ results > 0
    /\ Cardinality({i \in 1..Len(result_queue) : result_queue[i].id = task.id}) = 1
    /\ \E i \in 1..Len(result_queue) : result_queue[i] = Outcome(task, results)


\* The worker is inside the call of a phase task.
InPhaseTask == w_pc \in {"run", "update"} /\ task.name \in PhaseTasks

\* The step puts a result of the worker's task at the end of the result
\* channel.
PutsResultOfTask ==
    /\ Len(result_queue') = Len(result_queue) + 1
    /\ SubSeq(result_queue', 1, Len(result_queue)) = result_queue
    /\ result_queue'[Len(result_queue')].id = task.id

\* A worker that is inside a phase task while the shutdown signal is up goes
\* on with the task, or ends it by putting its result; only the close
\* protocol's kill (the exit code changes) ends it otherwise.
SignalDoesNotInterrupt ==
    [][(InPhaseTask /\ shutdown /\ exitcode' = exitcode /\ w_pc' /= w_pc) =>
          \/ w_pc' \in {"run", "update"} /\ result_queue' = result_queue
          \/ PutsResultOfTask]_vars

\* The result of the worker's task leaves the result channel.
ResultOfTaskLeaves ==
    /\ task.name \in PhaseTasks
    /\ task.id \in Ids(result_queue)
    /\ task.id \notin Ids(result_queue')

\* C30: there is no mid-task cancellation: with the shutdown signal up, a
\* worker inside a phase task is not interrupted; it goes on until the task
\* ends and puts the task's result before it leaves its loop, and that result
\* stays on the result channel until the supervisor receives it, unless a
\* close() call has been made (whose protocol may discard it).
NoMidTaskCancellation ==
    [][(/\ (InPhaseTask /\ shutdown /\ exitcode' = exitcode /\ w_pc' /= w_pc) =>
              (\/ w_pc' \in {"run", "update"} /\ result_queue' = result_queue
               \/ PutsResultOfTask)
        /\ (shutdown /\ ResultOfTaskLeaves) =>
              (task.id \in Ids(received') \/ ~NoCloseCalled))]_vars


\* C33: once the shutdown signal is set the worker begins at most one more
\* task: the signal is tested at the top of the loop only, so a worker that
\* is already in its poll may still dequeue a task and execute it, and after
\* that task it leaves the loop without dequeuing another.
AtMostOneTaskAfterSignal == begun <= 1

\* The worker has dequeued a phase task after the signal was set, executed it
\* and left its loop, with another phase task still queued.
OneTaskBegunAfterSignal ==
    /\ begun = 1 /\ task.name \in PhaseTasks
    /\ w_pc = "agent_close"
    /\ \E i \in 1..Len(result_queue) : result_queue[i].id = task.id
    /\ \E i \in 1..Len(task_queue) : task_queue[i].name \in PhaseTasks


\* C34: every state_dicts_* call on the handle returns to the supervisor in
\* the end, also when the worker has left its loop, has failed or is
\* shutting down when the request is put: the supervisor never waits for
\* ever on the model channel.
ModelStateGetReturns == (s_pc = "model_get") ~> (s_pc = "idle")

----------------------------------------------------------------------------
(* The Parallel Orchestrator (class ParallelAgent) and its workers         *)
(* (class SingleAgentProcess of stacierl/agent/parallelagent.py).          *)

CollectOps == {"heatup", "explore", "evaluate"}

\* The state dicts pulled and blended into self.algo.model in this round.
Blended == Cardinality({k \in 1..Len(o_log) : o_log[k].kind = "gather"})

\* One put or get of the orchestrator on the queues of an agent; copy tells
\* how many pulled states the authoritative model held at that moment.
Event(kind, a) == [kind |-> kind, agent |-> a, copy |-> Blended]

\* while not self._shutdown_event.is_set():
ParLoop(a) ==
    /\ p_pc[a] = "loop"
    /\ p_pc' = [p_pc EXCEPT ![a] = IF p_shutdown[a] THEN "drain" ELSE "get"]
    /\ UNCHANGED <<p_task_queue, p_result_queue, p_model_queue, p_shutdown, p_at, p_local, p_mirror, p_task,
                   o_pc, o_op, o_i, o_rounds,
                   o_log>>
    /\ UNCHANGED <<eve, loc>>

\* task = self._task_queue.get(timeout=0.5); queue.Empty: continue.
ParGet(a) ==
    /\ p_pc[a] = "get"
    /\ IF p_task_queue[a] = <<>>
       THEN /\ p_pc' = [p_pc EXCEPT ![a] = "loop"]
            /\ UNCHANGED <<p_task_queue, p_task>>
       ELSE /\ p_task' = [p_task EXCEPT ![a] = Head(p_task_queue[a])]
            /\ p_task_queue' = [p_task_queue EXCEPT ![a] = Tail(@)]
            /\ p_pc' = [p_pc EXCEPT ![a] =
                   CASE Head(p_task_queue[a]) \in CollectOps -> "run"
                     [] Head(p_task_queue[a]) = "update" -> "update"
                     [] OTHER -> "set_all_state_dicts"]
    /\ UNCHANGED <<p_result_queue, p_model_queue, p_shutdown, p_at, p_local, p_mirror, o_pc, o_op, o_i,
                   o_rounds,
                   o_log>>
    /\ UNCHANGED <<eve, loc>>

\* SingleAgent._explore / _evaluate / _update counting in the worker's own
\* counters: one episode of so many steps, or one optimisation step; a
\* heatup counts in none of the mirrored counters.
Counted(local, op, steps) ==
    CASE op = "explore" ->
           [local EXCEPT !.explore_step = @ + steps, !.explore_episode = @ + 1]
      [] op = "evaluate" ->
           [local EXCEPT !.eval_step = @ + steps, !.eval_episode = @ + 1]
      [] op = "update" -> [local EXCEPT !.update_step = @ + 1]
      [] OTHER -> local

\* self.explore_episode_counter_mp.value = self.explore_episode_counter, ...:
\* the counters of the task's kind are copied to their mirrors.
Mirrored(mirror, local, op) ==
    CASE op = "explore" ->
           [mirror EXCEPT !.explore_step = local.explore_step,
                          !.explore_episode = local.explore_episode]
      [] op = "evaluate" ->
           [mirror EXCEPT !.eval_step = local.eval_step,
                          !.eval_episode = local.eval_episode]
      [] op = "update" -> [mirror EXCEPT !.update_step = local.update_step]
      [] OTHER -> mirror

\* A branch that goes from the task straight to its put.
StraightToPut(op) == "put"

\* What follows the task in its branch: the writes of the mirrors, but in
\* the heatup branch, which has none.
AfterTask(op) == IF op = "heatup" THEN "put" ELSE "mirror"

\* result = self._heatup(...) / _explore / _evaluate, or self._update(...):
\* the task itself, which counts in the worker's own counters, or raises
\* and ends the process.
ParTask(a) ==
    /\ p_pc[a] \in {"run", "update"} /\ p_at[a] = "task"
    /\ \/ \E steps \in 1..MaxEpisodeSteps :
             /\ p_local' = [p_local EXCEPT ![a] = Counted(@, p_task[a], steps)]
             /\ p_at' = [p_at EXCEPT ![a] = AfterTask(p_task[a])]
             /\ UNCHANGED p_pc
       \/ \E steps \in 0..MaxEpisodeSteps :
             /\ p_local' = [p_local EXCEPT ![a] =
                   IF steps = 0 THEN @ ELSE Counted(@, p_task[a], steps)]
             /\ p_pc' = [p_pc EXCEPT ![a] = "exited"]
             /\ UNCHANGED p_at
    /\ UNCHANGED <<p_task_queue, p_result_queue, p_model_queue, p_shutdown, p_task,
                   p_mirror, o_pc, o_op, o_i, o_rounds, o_log>>
    /\ UNCHANGED <<eve, loc>>

\* The writes of the mirrors, after the task and before the put.
ParMirror(a) ==
    /\ p_pc[a] \in {"run", "update"} /\ p_at[a] = "mirror"
    /\ p_mirror' = [p_mirror EXCEPT ![a] = Mirrored(@, p_local[a], p_task[a])]
    /\ p_at' = [p_at EXCEPT ![a] = "put"]
    /\ UNCHANGED <<p_task_queue, p_result_queue, p_model_queue, p_shutdown, p_pc,
                   p_task, p_local, o_pc, o_op, o_i, o_rounds, o_log>>
    /\ UNCHANGED <<eve, loc>>

\* The end of the heatup / explore / evaluate branch:
\* self._result_queue.put(result); an exception is caught nowhere and ends
\* the process.
ParRun(a) ==
    /\ p_pc[a] = "run"
    /\ p_at[a] = "put"
    /\ p_at' = [p_at EXCEPT ![a] = "task"]
    /\ \/ /\ p_result_queue' = [p_result_queue EXCEPT ![a] = Append(@, p_task[a])]
          /\ p_pc' = [p_pc EXCEPT ![a] = "loop"]
       \/ /\ p_pc' = [p_pc EXCEPT ![a] = "exited"]
          /\ UNCHANGED p_result_queue
    /\ UNCHANGED <<p_task_queue, p_model_queue, p_shutdown, p_local, p_mirror, p_task, o_pc, o_op, o_i,
                   o_rounds,
                   o_log>>
    /\ UNCHANGED <<eve, loc>>

\* The end of the update branch: self._model_queue.put(all_state_dicts());
\* continue (an exception ends the process here too).
ParUpdate(a) ==
    /\ p_pc[a] = "update"
    /\ p_at[a] = "put"
    /\ p_at' = [p_at EXCEPT ![a] = "task"]
    /\ \/ /\ p_model_queue' = [p_model_queue EXCEPT ![a] = Append(@, a)]
          /\ p_pc' = [p_pc EXCEPT ![a] = "loop"]
       \/ /\ p_pc' = [p_pc EXCEPT ![a] = "exited"]
          /\ UNCHANGED p_model_queue
    /\ UNCHANGED <<p_task_queue, p_result_queue, p_shutdown, p_local, p_mirror, p_task, o_pc, o_op, o_i,
                   o_rounds,
                   o_log>>
    /\ UNCHANGED <<eve, loc>>

\* self.algo.model.load_all_state_dicts(task[1]); continue (an exception
\* ends the process here too).
ParSetAllStateDicts(a) ==
    /\ p_pc[a] = "set_all_state_dicts"
    /\ \/ p_pc' = [p_pc EXCEPT ![a] = "loop"]
       \/ p_pc' = [p_pc EXCEPT ![a] = "exited"]
    /\ UNCHANGED <<p_task_queue, p_result_queue, p_model_queue, p_shutdown, p_at, p_local, p_mirror, p_task,
                   o_pc, o_op, o_i, o_rounds,
                   o_log>>
    /\ UNCHANGED <<eve, loc>>

\* After the loop: the task queue, then the result queue, are emptied.
ParDrain(a) ==
    /\ p_pc[a] = "drain"
    /\ p_task_queue' = [p_task_queue EXCEPT ![a] = <<>>]
    /\ p_result_queue' = [p_result_queue EXCEPT ![a] = <<>>]
    /\ p_pc' = [p_pc EXCEPT ![a] = "exited"]
    /\ UNCHANGED <<p_model_queue, p_shutdown, p_at, p_local, p_mirror, p_task, o_pc, o_op, o_i, o_rounds,
                   o_log>>
    /\ UNCHANGED <<eve, loc>>

ParWorker(a) ==
    \/ ParLoop(a) \/ ParGet(a) \/ ParTask(a) \/ ParMirror(a) \/ ParRun(a)
    \/ ParUpdate(a)
    \/ ParSetAllStateDicts(a) \/ ParDrain(a)

\* The caller starts _heatup, _explore, _evaluate or _update.
OrchStart(op) ==
    /\ o_pc = "idle" /\ o_rounds < MaxRounds
    /\ o_op' = op /\ o_pc' = "issue" /\ o_i' = 1
    /\ o_rounds' = o_rounds + 1
    /\ o_log' = <<>>
    /\ UNCHANGED <<p_task_queue, p_result_queue, p_model_queue, p_shutdown, p_at, p_local, p_mirror, p_pc,
                   p_task>>
    /\ UNCHANGED <<eve, loc>>

\* An issue loop that would wait for each agent's answer before it issues
\* the task to the next agent.
OrchIssueOneByOne ==
    /\ o_pc = "issue"
    /\ p_task_queue' = [p_task_queue EXCEPT ![o_i] = Append(@, o_op)]
    /\ o_i' = o_i /\ o_pc' = IF o_op = "update" THEN "gather" ELSE "collect"
    /\ o_log' = Append(o_log, Event("issue", o_i))
    /\ UNCHANGED <<p_result_queue, p_model_queue, p_shutdown, p_at, p_local, p_mirror, p_pc, p_task, o_op,
                   o_rounds>>
    /\ UNCHANGED <<eve, loc>>

\* for agent in self.agents: agent.heatup(...) / explore / evaluate / update
OrchIssue ==
    /\ o_pc = "issue"
    /\ p_task_queue' = [p_task_queue EXCEPT ![o_i] = Append(@, o_op)]
    /\ IF o_i < NAgents
       THEN o_i' = o_i + 1 /\ UNCHANGED o_pc
       ELSE o_i' = 1 /\ o_pc' = IF o_op = "update" THEN "gather" ELSE "collect"
    /\ o_log' = Append(o_log, Event("issue", o_i))
    /\ UNCHANGED <<p_result_queue, p_model_queue, p_shutdown, p_at, p_local, p_mirror, p_pc, p_task, o_op,
                   o_rounds>>
    /\ UNCHANGED <<eve, loc>>

\* A collection that would return after the first agent's result.
OrchCollectFirstOnly ==
    /\ o_pc = "collect"
    /\ p_result_queue[o_i] /= <<>>
    /\ p_result_queue' = [p_result_queue EXCEPT ![o_i] = Tail(@)]
    /\ o_i' = 1 /\ o_pc' = "idle"
    /\ o_log' = Append(o_log, Event("collect", o_i))
    /\ UNCHANGED <<p_task_queue, p_model_queue, p_shutdown, p_at, p_local, p_mirror, p_pc, p_task, o_op,
                   o_rounds>>
    /\ UNCHANGED <<eve, loc>>

\* for agent in self.agents: results.append(agent.get_result()); after the
\* last one the reduction is returned.
OrchCollect ==
    /\ o_pc = "collect"
    /\ p_result_queue[o_i] /= <<>>
    /\ p_result_queue' = [p_result_queue EXCEPT ![o_i] = Tail(@)]
    /\ IF o_i < NAgents
       THEN o_i' = o_i + 1 /\ UNCHANGED o_pc
       ELSE o_i' = 1 /\ o_pc' = "idle"
    /\ o_log' = Append(o_log, Event("collect", o_i))
    /\ UNCHANGED <<p_task_queue, p_model_queue, p_shutdown, p_at, p_local, p_mirror, p_pc, p_task, o_op,
                   o_rounds>>
    /\ UNCHANGED <<eve, loc>>

\* A gather that would go on to the scatter after the first agent's state.
OrchGatherFirstOnly ==
    /\ o_pc = "gather"
    /\ p_model_queue[o_i] /= <<>>
    /\ p_model_queue' = [p_model_queue EXCEPT ![o_i] = Tail(@)]
    /\ o_i' = 1 /\ o_pc' = "scatter"
    /\ o_log' = Append(o_log, Event("gather", o_i))
    /\ UNCHANGED <<p_task_queue, p_result_queue, p_shutdown, p_at, p_local, p_mirror, p_pc, p_task, o_op,
                   o_rounds>>
    /\ UNCHANGED <<eve, loc>>

\* _update: for agent in self.agents: state_dict = agent.get_state_dict();
\* ... soft_tau_update_all(...)
OrchGather ==
    /\ o_pc = "gather"
    /\ p_model_queue[o_i] /= <<>>
    /\ p_model_queue' = [p_model_queue EXCEPT ![o_i] = Tail(@)]
    /\ IF o_i < NAgents
       THEN o_i' = o_i + 1 /\ UNCHANGED o_pc
       ELSE o_i' = 1 /\ o_pc' = "scatter"
    /\ o_log' = Append(o_log, Event("gather", o_i))
    /\ UNCHANGED <<p_task_queue, p_result_queue, p_shutdown, p_at, p_local, p_mirror, p_pc, p_task, o_op,
                   o_rounds>>
    /\ UNCHANGED <<eve, loc>>

\* _update: for agent in self.agents: agent.set_all_state_dicts(all_state_dicts)
OrchScatter ==
    /\ o_pc = "scatter"
    /\ p_task_queue' = [p_task_queue EXCEPT ![o_i] = Append(@, "set_all_state_dicts")]
    /\ IF o_i < NAgents
       THEN o_i' = o_i + 1 /\ UNCHANGED o_pc
       ELSE o_i' = 1 /\ o_pc' = "idle"
    /\ o_log' = Append(o_log, Event("scatter", o_i))
    /\ UNCHANGED <<p_result_queue, p_model_queue, p_shutdown, p_at, p_local, p_mirror, p_pc, p_task, o_op,
                   o_rounds>>
    /\ UNCHANGED <<eve, loc>>

\* close: for agent in self.agents: agent.shutdown()
OrchClose ==
    /\ o_pc = "idle"
    /\ \E a \in Agents : ~p_shutdown[a]
    /\ p_shutdown' = [a \in Agents |-> TRUE]
    /\ UNCHANGED <<p_task_queue, p_result_queue, p_model_queue, p_pc, p_task, p_at,
                   p_local, p_mirror, o_pc,
                   o_op, o_i, o_rounds,
                   o_log>>
    /\ UNCHANGED <<eve, loc>>

Orchestrator ==
    \/ \E op \in CollectOps \cup {"update"} : OrchStart(op)
    \/ OrchIssue \/ OrchCollect \/ OrchGather \/ OrchScatter \/ OrchClose

NextPar == (\E a \in Agents : ParWorker(a)) \/ Orchestrator

SpecPar == Init /\ [][NextPar]_vars

----------------------------------------------------------------------------
(* Properties of the Parallel Orchestrator.                                *)

\* The tasks of agent a that are queued or being executed.
Executing(a) == IF p_pc[a] \in {"run", "update", "set_all_state_dicts"}
                THEN <<p_task[a]>> ELSE <<>>
InFlight(a) == p_task_queue[a] \o Executing(a)

IsReplyTask(name) == name /= "set_all_state_dicts"

\* The tasks of agent a whose reply the orchestrator has not received yet:
\* queued, being executed, or answered on the result or model channel.
AwaitingReply(a) ==
    Len(SelectSeq(InFlight(a), IsReplyTask))
        + Len(p_result_queue[a]) + Len(p_model_queue[a])

\* A task is put on the task channel of agent a.
Enqueues(a) == Len(p_task_queue'[a]) > Len(p_task_queue[a])

\* C6 as claimed: no task is enqueued on a handle while an earlier task of
\* that handle, a fire-and-forget set_all_state_dicts included, is still
\* queued or executing.
OneTaskInFlight ==
    [][\A a \in Agents : Enqueues(a) => InFlight(a) = <<>>]_vars

\* C6 amended: no task is enqueued on a handle while the reply to an earlier
\* task of that handle is outstanding; only set_all_state_dicts tasks, which
\* have no reply, can still be queued or executing.
OneAwaitedTaskInFlight ==
    [][\A a \in Agents :
          Enqueues(a) =>
              /\ AwaitingReply(a) = 0
              /\ \A k \in 1..Len(InFlight(a)) : InFlight(a)[k] = "set_all_state_dicts"]_vars

\* C6 witness: the orchestrator has started a second operation and issued
\* its task to a worker that has a set_all_state_dicts still queued.
IssuedBehindSetAllStateDicts ==
    \E a \in Agents :
        /\ Len(p_task_queue[a]) = 2
        /\ p_task_queue[a][1] = "set_all_state_dicts"
        /\ p_task_queue[a][2] \in CollectOps \cup {"update"}

\* The update of agent a has failed: its process ended inside the update
\* task, with no shutdown asked for and no state put on its model channel.
UpdateFailedIn(a) ==
    /\ p_pc[a] = "exited" /\ p_task[a] = "update" /\ ~p_shutdown[a]
    /\ p_model_queue[a] = <<>>

\* C18: an update round is never left waiting for the state of a worker
\* whose update has failed (a wait nothing can end), and it scatters nothing
\* once a worker's update has failed.
UpdateRoundSurfacesFailure ==
    \A a \in Agents :
        UpdateFailedIn(a) =>
            /\ ~(o_pc = "gather" /\ o_i = a)
            /\ o_pc /= "scatter"

\* The puts and gets of a whole operation made of these phases, in order:
\* each phase goes over the agents 1..NAgents.
Round(phases) ==
    [k \in 1..(Len(phases) * NAgents) |->
        [kind |-> phases[((k - 1) \div NAgents) + 1], agent |-> ((k - 1) % NAgents) + 1]]

\* The orchestrator's log so far is the beginning of this round, and the
\* whole of it once the operation has returned.
Follows(round) ==
    /\ Len(o_log) <= Len(round)
    /\ \A k \in 1..Len(o_log) :
          o_log[k].kind = round[k].kind /\ o_log[k].agent = round[k].agent
    /\ o_pc = "idle" => Len(o_log) = Len(round)

\* C19: an update round issues the update to all agents, then pulls and
\* blends the state of every agent, then sends every agent the copy that
\* holds all NAgents states, and returns only after the last of these puts.
UpdateRoundOrder ==
    o_op = "update" =>
        /\ Follows(Round(<<"issue", "gather", "scatter">>))
        /\ \A k \in 1..Len(o_log) :
              o_log[k].kind = "scatter" => o_log[k].copy = NAgents

\* C19 witness: an update round has returned after scattering to all agents.
UpdateRoundDone ==
    /\ o_pc = "idle" /\ o_op = "update"
    /\ Len(o_log) = 3 * NAgents
    /\ o_log[Len(o_log)] = [kind |-> "scatter", agent |-> NAgents, copy |-> NAgents]

\* C20: heatup, explore and evaluate issue the task to all agents before
\* they collect anything, then collect one result per agent in issue order,
\* and return only after the last result.
CollectRoundOrder ==
    o_op \in CollectOps => Follows(Round(<<"issue", "collect">>))

\* C20 witness: an explore has returned with one result of every agent.
CollectRoundDone ==
    /\ o_pc = "idle" /\ o_op = "explore"
    /\ Len(o_log) = 2 * NAgents
    /\ o_log[Len(o_log)].kind = "collect" /\ o_log[Len(o_log)].agent = NAgents
    /\ \A a \in Agents : p_result_queue[a] = <<>>

----------------------------------------------------------------------------
(* The budget split of the Parallel Orchestrator.                          *)

\* A ceiling that rounds down instead.
CeilFloor(num, den) == num \div den

\* ceil(num / den), for num >= 0 and den >= 1.
Ceil(num, den) == IF num % den = 0 THEN num \div den ELSE (num \div den) + 1

\* One budget's share per agent: ceil(budget / n_agents) if budget < inf,
\* else inf.
PerAgent(budget, n_agents) ==
    IF budget.finite THEN Finite(Ceil(budget.n, n_agents)) ELSE inf

\* _divide_steps_and_episodes: steps_per_agent, episodes_per_agent.
DivideStepsAndEpisodes(steps, episodes, n_agents) ==
    [steps |-> PerAgent(steps, n_agents), episodes |-> PerAgent(episodes, n_agents)]

\* The budgets the split is applied to.
SplitBudgets == {inf} \cup {Finite(n) : n \in 0..MaxSplitBudget}

\* _heatup / _explore / _evaluate: divide, then hand every agent the same
\* (steps_per_agent, episodes_per_agent).
DivideAndIssue(n_agents, steps, episodes) ==
    /\ d_in' = SplitCall("collect", n_agents, steps, episodes)
    /\ d_out' = Handed([a \in 1..n_agents |->
                          DivideStepsAndEpisodes(steps, episodes, n_agents)])
    /\ UNCHANGED <<eve, par, playing, single, reader, fanout>>

\* _update: steps_per_agent = ceil(steps / n_agents) with no test for inf
\* (ceil(inf) raises OverflowError), handed to every agent.
UpdateSplit(n_agents, steps) ==
    /\ d_in' = SplitCall("update", n_agents, steps, inf)
    /\ d_out' = IF steps.finite
                THEN Handed([a \in 1..n_agents |->
                               [steps |-> Finite(Ceil(steps.n, n_agents)),
                                episodes |-> inf]])
                ELSE SplitRaised("OverflowError")
    /\ UNCHANGED <<eve, par, playing, single, reader, fanout>>

NextSplit ==
    \/ \E n_agents \in 1..MaxSplitAgents : \E steps, episodes \in SplitBudgets :
          DivideAndIssue(n_agents, steps, episodes)
    \/ \E n_agents \in 1..MaxSplitAgents : \E steps \in SplitBudgets :
          UpdateSplit(n_agents, steps)

SpecSplit == Init /\ [][NextSplit]_vars

----------------------------------------------------------------------------
(* The Local Agent: class Single, and the counters it shares.              *)

\* The counter field a collecting method counts in.
Phase(method) ==
    CASE method = "heatup" -> "heatup"
      [] method = "explore" -> "exploration"
      [] OTHER -> "evaluation"

\* counter <= limit, in place of counter < limit.
NotAbove(counter, limit) == ~limit.finite \/ counter <= limit.n

\* counter < limit and counter > limit, for a limit that may be unbounded.
Below(counter, limit) == ~limit.finite \/ counter < limit.n
Above(counter, limit) == limit.finite /\ counter > limit.n

\* _log_and_convert_limits: the limit a budget sets on a counter.
Limit(counter, budget) ==
    IF budget.finite THEN Finite(counter + budget.n) ELSE inf

\* counter.field = delta, in place of +=.
AssignDelta(counter, field, delta) == [counter EXCEPT ![field] = delta]

\* counter.field += delta
IncrementBy(counter, field, delta) == [counter EXCEPT ![field] = @ + delta]

\* The first element of a list, in place of the last.
PoppedFirst(l) == IF l.given THEN <<l.list[1]>> ELSE <<>>

\* l.pop(-1) if l is not None else None: the value, and what is left.
Popped(l) == IF l.given THEN <<l.list[Len(l.list)]>> ELSE <<>>
AfterPop(l) == IF l.given THEN List(SubSeq(l.list, 1, Len(l.list) - 1)) ELSE l

\* not l
Not(l) == ~l.given \/ l.list = <<>>

\* return data
Return(a, data) ==
    /\ a_ret' = [a_ret EXCEPT ![a] = Returned(a_call[a].method, data)]
    /\ a_pc' = [a_pc EXCEPT ![a] = "idle"]

\* An exception leaves the method.
Raise(a, e) ==
    /\ a_ret' = [a_ret EXCEPT ![a] = Raised(a_call[a].method, e)]
    /\ a_pc' = [a_pc EXCEPT ![a] = "raised"]

\* The budgets a method is called with.
Budgets == {inf} \cup {Finite(n) : n \in 1..MaxBudget}
UpdateBudgets == {Finite(n) : n \in 0..MaxBudget}
Lists == {None} \cup {List([i \in 1..k |-> i]) : k \in 0..MaxSeeds}

\* The head of heatup and of explore: the limits, episodes_data = [].
Collect(a, method, steps, episodes) ==
    /\ a_pc[a] = "idle" /\ n_calls[a] < MaxCalls
    /\ n_calls' = [n_calls EXCEPT ![a] = @ + 1]
    /\ a_call' = [a_call EXCEPT ![a] = Call(method, steps, episodes, None, None)]
    /\ a_limit' = [a_limit EXCEPT ![a] =
          [step |-> Limit(step_counter[a][Phase(method)], steps),
           episode |-> Limit(episode_counter[a][Phase(method)], episodes)]]
    /\ seeds' = [seeds EXCEPT ![a] = None]
    /\ options' = [options EXCEPT ![a] = None]
    /\ episodes_data' = [episodes_data EXCEPT ![a] = <<>>]
    /\ resets' = [resets EXCEPT ![a] = <<>>]
    /\ pushed' = [pushed EXCEPT ![a] = <<>>]
    /\ a_start' = [a_start EXCEPT ![a] = Counters(a)]
    /\ a_pc' = [a_pc EXCEPT ![a] = "test"]
    /\ UNCHANGED <<step_counter, episode_counter, lock, replay_len,
                   replay_too_small, queried, n_steps_episode, u_results, a_ret>>
    /\ UNCHANGED <<eve, par, playing, split, reader, fanout>>

\* heatup(steps, episodes); with neither budget the loop has no end.
Heatup(a) ==
    \E steps, episodes \in Budgets :
        /\ steps.finite \/ episodes.finite
        /\ Collect(a, "heatup", steps, episodes)

\* explore(steps, episodes); with neither budget the loop has no end.
Explore(a) ==
    \E steps, episodes \in Budgets :
        /\ steps.finite \/ episodes.finite
        /\ Collect(a, "explore", steps, episodes)

\* evaluate(steps, episodes, seeds, options): the limits, then while True.
Evaluate(a) ==
    \E steps, episodes \in Budgets : \E s, o \in Lists :
        /\ a_pc[a] = "idle" /\ n_calls[a] < MaxCalls
        /\ n_calls' = [n_calls EXCEPT ![a] = @ + 1]
        /\ a_call' = [a_call EXCEPT ![a] = Call("evaluate", steps, episodes, s, o)]
        /\ a_limit' = [a_limit EXCEPT ![a] =
              [step |-> Limit(step_counter[a].evaluation, steps),
               episode |-> Limit(episode_counter[a].evaluation, episodes)]]
        /\ seeds' = [seeds EXCEPT ![a] = s]
        /\ options' = [options EXCEPT ![a] = o]
        /\ episodes_data' = [episodes_data EXCEPT ![a] = <<>>]
        /\ resets' = [resets EXCEPT ![a] = <<>>]
        /\ pushed' = [pushed EXCEPT ![a] = <<>>]
        /\ a_start' = [a_start EXCEPT ![a] = Counters(a)]
        /\ a_pc' = [a_pc EXCEPT ![a] = "lock_episode"]
        /\ UNCHANGED <<step_counter, episode_counter, lock, replay_len,
                       replay_too_small, queried, n_steps_episode, u_results, a_ret>>
        /\ UNCHANGED <<eve, par, playing, split, reader, fanout>>

\* while step_counter.<phase> < step_limit and
\*       episode_counter.<phase> < episode_limit: ...; return episodes_data
LoopTest(a) ==
    /\ a_pc[a] = "test"
    /\ IF /\ Below(step_counter[a][Phase(a_call[a].method)], a_limit[a].step)
          /\ Below(episode_counter[a][Phase(a_call[a].method)], a_limit[a].episode)
       THEN /\ a_pc' = [a_pc EXCEPT ![a] = "lock_episode"]
            /\ UNCHANGED a_ret
       ELSE Return(a, episodes_data[a])
    /\ UNCHANGED <<step_counter, episode_counter, lock, replay_len,
                   replay_too_small, queried, a_call, a_limit, seeds, options,
                   n_steps_episode, episodes_data, u_results, resets, pushed, a_start,
                   n_calls>>
    /\ UNCHANGED <<eve, par, playing, split, reader, fanout>>

\* with self.episode_counter.lock: (entered)
LockEpisode(a) ==
    /\ a_pc[a] = "lock_episode"
    /\ lock[a].episode = "free"
    /\ lock' = [lock EXCEPT ![a].episode = "worker"]
    /\ a_pc' = [a_pc EXCEPT ![a] = "count_episode"]
    /\ UNCHANGED <<step_counter, episode_counter, replay_len, replay_too_small, queried,
                   a_call, a_limit, seeds, options, n_steps_episode,
                   episodes_data, u_results, resets, pushed, a_ret, a_start, n_calls>>
    /\ UNCHANGED <<eve, par, playing, split, reader, fanout>>

\* self.episode_counter.<phase> += 1, and the lock is left.
CountEpisode(a) ==
    /\ a_pc[a] = "count_episode"
    /\ LET counted == IncrementBy(episode_counter[a], Phase(a_call[a].method), 1)
       IN  /\ episode_counter' = [episode_counter EXCEPT ![a] = counted]
           /\ prefixes' = [prefixes EXCEPT ![a] =
                 @ \cup {[episode |-> counted, step |-> step_counter[a]]}]
    /\ lock' = [lock EXCEPT ![a].episode = "free"]
    /\ a_pc' = [a_pc EXCEPT ![a] = "play"]
    /\ UNCHANGED <<step_counter, replay_len, replay_too_small, queried, a_call, a_limit,
                   seeds, options, n_steps_episode, episodes_data, u_results,
                   resets, pushed, a_ret, a_start, n_calls>>
    /\ UNCHANGED <<eve, par, playing, split, r_pc, r_snap, n_sets, fanout>>

\* evaluate: next_seed = seeds.pop(-1), next_options = options.pop(-1)
\* (IndexError on an empty list). Then _play_episode: env.reset(seed=seed,
\* options=options) and env.step until terminal or truncation, at least
\* once; the environment may raise.
PlayEpisode(a) ==
    /\ a_pc[a] = "play"
    /\ IF seeds[a].given /\ seeds[a].list = <<>>
       THEN /\ Raise(a, "IndexError")
            /\ UNCHANGED <<seeds, options, resets, n_steps_episode>>
       ELSE IF options[a].given /\ options[a].list = <<>>
       THEN /\ seeds' = [seeds EXCEPT ![a] = AfterPop(seeds[a])]
            /\ Raise(a, "IndexError")
            /\ UNCHANGED <<options, resets, n_steps_episode>>
       ELSE /\ seeds' = [seeds EXCEPT ![a] = AfterPop(seeds[a])]
            /\ options' = [options EXCEPT ![a] = AfterPop(options[a])]
            /\ resets' = [resets EXCEPT ![a] =
                  Append(@, [seed |-> Popped(seeds[a]),
                             options |-> Popped(options[a])])]
            /\ \/ \E n \in 1..MaxEpisodeSteps :
                     /\ n_steps_episode' = [n_steps_episode EXCEPT ![a] = n]
                     /\ a_pc' = [a_pc EXCEPT ![a] = "lock_step"]
                     /\ UNCHANGED a_ret
               \/ /\ Raise(a, "RuntimeError")
                  /\ UNCHANGED n_steps_episode
    /\ UNCHANGED <<step_counter, episode_counter, lock, replay_len,
                   replay_too_small, queried, a_call, a_limit, episodes_data, u_results,
                   pushed, a_start, n_calls>>
    /\ UNCHANGED <<eve, par, playing, split, reader, fanout>>

\* self.replay_buffer.push(episode): the episode is named by its place
\* among the episodes of this call.
Push(a, episode, steps) ==
    pushed' = [pushed EXCEPT ![a] = Append(@, [episode |-> episode, steps |-> steps])]

\* with self.step_counter.lock: (entered)
LockStep(a) ==
    /\ a_pc[a] = "lock_step"
    /\ lock[a].step = "free"
    /\ lock' = [lock EXCEPT ![a].step = "worker"]
    /\ a_pc' = [a_pc EXCEPT ![a] = "count_steps"]
    /\ UNCHANGED <<step_counter, episode_counter, replay_len, replay_too_small, queried,
                   a_call, a_limit, seeds, options, n_steps_episode,
                   episodes_data, u_results, resets, pushed, a_ret, a_start, n_calls>>
    /\ UNCHANGED <<eve, par, playing, split, reader, fanout>>

\* self.step_counter.<phase> += n_steps_episode, and the lock is left; then
\* replay_buffer.push(episode) (heatup, explore) and
\* episodes_data.append(episode).
CountSteps(a) ==
    /\ a_pc[a] = "count_steps"
    /\ LET counted == IncrementBy(step_counter[a], Phase(a_call[a].method),
                                  n_steps_episode[a])
       IN  /\ step_counter' = [step_counter EXCEPT ![a] = counted]
           /\ prefixes' = [prefixes EXCEPT ![a] =
                 @ \cup {[episode |-> episode_counter[a], step |-> counted]}]
    /\ lock' = [lock EXCEPT ![a].step = "free"]
    /\ replay_len' = [replay_len EXCEPT ![a] =
          IF a_call[a].method = "evaluate" THEN @
          ELSE IF @ + n_steps_episode[a] > ReplayCapacity THEN ReplayCapacity
          ELSE @ + n_steps_episode[a]]
    /\ IF a_call[a].method = "evaluate"
       THEN UNCHANGED pushed
       ELSE Push(a, Len(episodes_data[a]) + 1, n_steps_episode[a])
    /\ episodes_data' = [episodes_data EXCEPT ![a] = Append(@, n_steps_episode[a])]
    /\ a_pc' = [a_pc EXCEPT ![a] =
          IF a_call[a].method = "evaluate" THEN "check" ELSE "test"]
    /\ UNCHANGED <<episode_counter, replay_too_small, queried, a_call, a_limit, seeds,
                   options, n_steps_episode, u_results, resets, a_ret, a_start,
                   n_calls>>
    /\ UNCHANGED <<eve, par, playing, split, r_pc, r_snap, n_sets, fanout>>

\* not s or not o: one list used up is enough.
EitherExhausted(s, o) == Not(s) \/ Not(o)

\* not seeds and not options
Exhausted(s, o) == Not(s) /\ Not(o)

\* evaluate: if (not seeds and not options) or step_counter.evaluation >
\* step_limit or episode_counter.evaluation > episode_limit: break
EvaluateCheck(a) ==
    /\ a_pc[a] = "check"
    /\ IF \/ Exhausted(seeds[a], options[a])
          \/ Above(step_counter[a].evaluation, a_limit[a].step)
          \/ Above(episode_counter[a].evaluation, a_limit[a].episode)
       THEN Return(a, episodes_data[a])
       ELSE /\ a_pc' = [a_pc EXCEPT ![a] = "lock_episode"]
            /\ UNCHANGED a_ret
    /\ UNCHANGED <<step_counter, episode_counter, lock, replay_len,
                   replay_too_small, queried, a_call, a_limit, seeds, options,
                   n_steps_episode, episodes_data, u_results, resets, pushed, a_start,
                   n_calls>>
    /\ UNCHANGED <<eve, par, playing, split, reader, fanout>>

\* replay_len <= batch_size
TooSmall(len) == len <= BatchSize

\* The length asked for in every update call.
LengthQueriedAlways(a) == TRUE

\* if self._replay_too_small: replay_len = len(self.replay_buffer)
LengthQueried(a) == replay_too_small[a]

\* update(steps): the limit; _replay_too_small is looked at again only
\* while it is True; return [] if it is True, or step_limit == 0, or
\* steps == 0.
Update(a) ==
    \E steps \in UpdateBudgets :
        /\ a_pc[a] = "idle" /\ n_calls[a] < MaxCalls
        /\ n_calls' = [n_calls EXCEPT ![a] = @ + 1]
        /\ a_call' = [a_call EXCEPT ![a] = Call("update", steps, inf, None, None)]
        /\ a_start' = [a_start EXCEPT ![a] = Counters(a)]
        /\ u_results' = [u_results EXCEPT ![a] = 0]
        /\ LET step_limit == Limit(step_counter[a].update, steps)
               too_small == IF LengthQueried(a) THEN TooSmall(replay_len[a])
                            ELSE replay_too_small[a]
           IN  /\ a_limit' = [a_limit EXCEPT ![a] = [step |-> step_limit, episode |-> inf]]
               /\ queried' = [queried EXCEPT ![a] = LengthQueried(a)]
               /\ replay_too_small' = [replay_too_small EXCEPT ![a] = too_small]
               /\ IF too_small \/ step_limit = Finite(0) \/ steps = Finite(0)
                  THEN /\ a_ret' = [a_ret EXCEPT ![a] = Returned("update", <<>>)]
                       /\ UNCHANGED a_pc
                  ELSE /\ a_pc' = [a_pc EXCEPT ![a] = "update_test"]
                       /\ UNCHANGED a_ret
        /\ UNCHANGED <<step_counter, episode_counter, lock, replay_len, seeds,
                       options, n_steps_episode, episodes_data, resets, pushed>>
        /\ UNCHANGED <<eve, par, playing, split, reader, fanout>>

\* A loop body that starts with the optimisation call.
CallFirst == "optimize"

\* The loop body starts with the count: with self.step_counter.lock:
\* self.step_counter.update += 1
FirstInLoop == "lock_update"

\* while self.step_counter.update < step_limit: ...; return results
UpdateTest(a) ==
    /\ a_pc[a] = "update_test"
    /\ IF Below(step_counter[a].update, a_limit[a].step)
       THEN /\ a_pc' = [a_pc EXCEPT ![a] = FirstInLoop]
            /\ UNCHANGED a_ret
       ELSE Return(a, [i \in 1..u_results[a] |-> i])
    /\ UNCHANGED <<step_counter, episode_counter, lock, replay_len,
                   replay_too_small, queried, a_call, a_limit, seeds, options,
                   n_steps_episode, episodes_data, u_results, resets, pushed, a_start,
                   n_calls>>
    /\ UNCHANGED <<eve, par, playing, split, reader, fanout>>

\* with self.step_counter.lock: (entered, in update)
LockUpdate(a) ==
    /\ a_pc[a] = "lock_update"
    /\ lock[a].step = "free"
    /\ lock' = [lock EXCEPT ![a].step = "worker"]
    /\ a_pc' = [a_pc EXCEPT ![a] = "count_update"]
    /\ UNCHANGED <<step_counter, episode_counter, replay_len, replay_too_small, queried,
                   a_call, a_limit, seeds, options, n_steps_episode,
                   episodes_data, u_results, resets, pushed, a_ret, a_start, n_calls>>
    /\ UNCHANGED <<eve, par, playing, split, reader, fanout>>

\* self.step_counter.update += 1, and the lock is left.
CountUpdate(a) ==
    /\ a_pc[a] = "count_update"
    /\ LET counted == IncrementBy(step_counter[a], "update", 1)
       IN  /\ step_counter' = [step_counter EXCEPT ![a] = counted]
           /\ prefixes' = [prefixes EXCEPT ![a] =
                 @ \cup {[episode |-> episode_counter[a], step |-> counted]}]
    /\ lock' = [lock EXCEPT ![a].step = "free"]
    /\ a_pc' = [a_pc EXCEPT ![a] = "optimize"]
    /\ UNCHANGED <<episode_counter, replay_len, replay_too_small, queried, a_call,
                   a_limit, seeds, options, n_steps_episode, episodes_data,
                   u_results, resets, pushed, a_ret, a_start, n_calls>>
    /\ UNCHANGED <<eve, par, playing, split, r_pc, r_snap, n_sets, fanout>>

\* batch = replay_buffer.sample(); results.append(algo.update(batch)),
\* which may raise.
Optimize(a) ==
    /\ a_pc[a] = "optimize"
    /\ \/ /\ u_results' = [u_results EXCEPT ![a] = @ + 1]
          /\ a_pc' = [a_pc EXCEPT ![a] = "update_test"]
          /\ UNCHANGED a_ret
       \/ \E e \in ExcTypes :
             /\ Raise(a, e)
             /\ UNCHANGED u_results
    /\ UNCHANGED <<step_counter, episode_counter, lock, replay_len,
                   replay_too_small, queried, a_call, a_limit, seeds, options,
                   n_steps_episode, episodes_data, resets, pushed, a_start, n_calls>>
    /\ UNCHANGED <<eve, par, playing, split, reader, fanout>>

\* The steps of a heatup or an explore that is under way.
Collecting(a) ==
    \/ LoopTest(a) \/ LockEpisode(a) \/ CountEpisode(a) \/ PlayEpisode(a)
    \/ LockStep(a) \/ CountSteps(a)

\* The steps of an update that is under way.
Updating(a) ==
    \/ UpdateTest(a) \/ LockUpdate(a) \/ CountUpdate(a) \/ Optimize(a)

\* The methods that fill the replay buffer and train on it.
Training(a) ==
    \/ Heatup(a) \/ Explore(a) \/ Update(a) \/ Collecting(a) \/ Updating(a)

LocalAgent(a) == Training(a) \/ Evaluate(a) \/ EvaluateCheck(a)

\* Single(algo, env_train, env_eval, replay_buffer): the replay buffer is
\* handed in, and may hold transitions already (wrapper LoadFromDB).
InitTraining ==
    /\ InitButReplay
    /\ \E n \in 0..ReplayCapacity : replay_len = [a \in Agents |-> n]

\* One Local Agent (the first) that collects and updates, one call after
\* the other.
NextTraining == Training(1)

SpecTraining == InitTraining /\ [][NextTraining]_vars

\* One Local Agent (the first), called one method after the other.
NextAgent == LocalAgent(1)

SpecAgent == Init /\ [][NextAgent]_vars

----------------------------------------------------------------------------
(* One episode: Single._play_episode.                                      *)

\* _play_episode(env, action_function, consecutive_actions, ...):
\* terminal = truncation = False, step_counter = 0, algo.reset(),
\* env.reset(...), episode = Episode(obs, flat_obs).
PlayStart ==
    \E c \in 0..MaxConsecutive :
        /\ e_pc \in {"idle", "returned"} /\ n_episodes < MaxEpisodes
        /\ n_episodes' = n_episodes + 1
        /\ consecutive_actions' = c
        /\ terminal' = FALSE /\ truncation' = FALSE
        /\ e_step_counter' = 0 /\ e_i' = 0
        /\ env_steps' = 0 /\ transitions' = 0 /\ stepped_late' = FALSE
        /\ e_pc' = "while"
        /\ UNCHANGED e_ret
        /\ UNCHANGED <<eve, par, split, single, reader, fanout>>

\* while not (terminal or truncation): action = action_function(flat_obs);
\* for _ in range(consecutive_actions): ...; after the loop:
\* return episode, step_counter
PlayWhile ==
    /\ e_pc = "while"
    /\ IF ~(terminal \/ truncation)
       THEN /\ e_i' = 0 /\ e_pc' = "for"
            /\ UNCHANGED e_ret
       ELSE /\ e_ret' = e_step_counter /\ e_pc' = "returned"
            /\ UNCHANGED e_i
    /\ UNCHANGED <<consecutive_actions, terminal, truncation, e_step_counter,
                   env_steps, transitions, stepped_late, n_episodes>>
    /\ UNCHANGED <<eve, par, split, single, reader, fanout>>

\* One turn of the for loop, up to the step being counted:
\* obs, reward, terminal, truncation, info = env.step(env_action);
\* step_counter += 1. The environment ends the episode when it likes, on
\* step MaxEnvSteps at the latest, and may raise; the normalization raises
\* NotImplementedError on an action space that is not a Box.
PlayStep ==
    /\ e_pc = "for"
    /\ IF e_i < consecutive_actions
       THEN \/ /\ \E t, u \in BOOLEAN :
                     /\ (env_steps + 1 = MaxEnvSteps) => (t \/ u)
                     /\ terminal' = t /\ truncation' = u
               /\ env_steps' = env_steps + 1
               /\ stepped_late' = (stepped_late \/ terminal \/ truncation)
               /\ e_step_counter' = e_step_counter + 1
               /\ e_i' = e_i + 1
               /\ e_pc' = "add"
            \/ /\ e_pc' = "raised"
               /\ UNCHANGED <<terminal, truncation, env_steps, stepped_late,
                              e_step_counter, e_i>>
       ELSE /\ e_pc' = "while"
            /\ UNCHANGED <<terminal, truncation, env_steps, stepped_late,
                           e_step_counter, e_i>>
    /\ UNCHANGED <<consecutive_actions, transitions, e_ret, n_episodes>>
    /\ UNCHANGED <<eve, par, split, single, reader, fanout>>

\* A for loop without its break.
NextTurn(done) == "for"

\* if terminal or truncation: break
BreakIf(done) == IF done THEN "while" ELSE "for"

\* The rest of the turn: env.render() (which may raise);
\* episode.add_transition(...); if terminal or truncation: break
PlayAdd ==
    /\ e_pc = "add"
    /\ \/ /\ transitions' = transitions + 1
          /\ e_pc' = BreakIf(terminal \/ truncation)
       \/ /\ e_pc' = "raised"
          /\ UNCHANGED transitions
    /\ UNCHANGED <<consecutive_actions, terminal, truncation, e_step_counter, e_i,
                   env_steps, stepped_late, e_ret, n_episodes>>
    /\ UNCHANGED <<eve, par, split, single, reader, fanout>>

NextEpisode == PlayStart \/ PlayWhile \/ PlayStep \/ PlayAdd

SpecEpisode == Init /\ [][NextEpisode]_vars

----------------------------------------------------------------------------
(* The supervisor side of the shared counters.                             *)

\* The counters a caller assigns through the handle.
NewStepCounters == {[f \in StepFields |-> n] : n \in 0..MaxBudget}
NewEpisodeCounters == {[f \in EpisodeFields |-> n] : n \in 0..MaxBudget}

\* handle.episode_counter read by the caller: the live fields, no lock.
ReadEpisodeCounter(a) ==
    /\ r_pc = "idle"
    /\ r_snap' = [r_snap EXCEPT !.episode = episode_counter[a]]
    /\ r_pc' = "episode_read"
    /\ UNCHANGED <<prefixes, n_sets>>
    /\ UNCHANGED <<eve, par, playing, split, single, fanout>>

\* handle.step_counter read by the caller: the live fields, no lock.
ReadStepCounter(a) ==
    /\ r_pc = "episode_read"
    /\ r_snap' = [r_snap EXCEPT !.step = step_counter[a]]
    /\ r_pc' = "done"
    /\ UNCHANGED <<prefixes, n_sets>>
    /\ UNCHANGED <<eve, par, playing, split, single, fanout>>

\* step_counter.setter: every field of the shared counter is assigned the
\* caller's value; no lock is taken.
SetStepCounter(a) ==
    \E new_counter \in NewStepCounters :
        /\ n_sets < MaxSets
        /\ n_sets' = n_sets + 1
        /\ step_counter' = [step_counter EXCEPT ![a] = new_counter]
        /\ UNCHANGED <<episode_counter, lock, replay_len, replay_too_small, queried,
                       a_pc, a_call, a_limit, seeds, options, n_steps_episode,
                       episodes_data, u_results, resets, pushed, a_ret, a_start, n_calls>>
        /\ UNCHANGED <<r_pc, r_snap, prefixes>>
        /\ UNCHANGED <<eve, par, playing, split, fanout>>

\* episode_counter.setter: the same, for the episode counter.
SetEpisodeCounter(a) ==
    \E new_counter \in NewEpisodeCounters :
        /\ n_sets < MaxSets
        /\ n_sets' = n_sets + 1
        /\ episode_counter' = [episode_counter EXCEPT ![a] = new_counter]
        /\ UNCHANGED <<step_counter, lock, replay_len, replay_too_small, queried,
                       a_pc, a_call, a_limit, seeds, options, n_steps_episode,
                       episodes_data, u_results, resets, pushed, a_ret, a_start, n_calls>>
        /\ UNCHANGED <<r_pc, r_snap, prefixes>>
        /\ UNCHANGED <<eve, par, playing, split, fanout>>

\* A Local Agent (the first) training while the caller reads its counters.
NextReader == Training(1) \/ ReadEpisodeCounter(1) \/ ReadStepCounter(1)

SpecReader == Init /\ [][NextReader]_vars

\* A Local Agent (the first) training while the caller assigns its counters.
NextCounters == Training(1) \/ SetStepCounter(1) \/ SetEpisodeCounter(1)

SpecCounters == Init /\ [][NextCounters]_vars

----------------------------------------------------------------------------
(* A heatup fanned out to every agent, and the merged counters.            *)

\* The budgets a fanned-out heatup is called with.
FanOutBudgets == {inf} \cup {Finite(n) : n \in 0..(MaxBudget * NAgents)}

\* _heatup: divide the budgets, then agent.heatup(steps_per_agent,
\* episodes_per_agent) for every agent, which starts its heatup.
HeatupFanOut ==
    \E steps, episodes \in FanOutBudgets :
        /\ steps.finite \/ episodes.finite
        /\ h_pc = "idle"
        /\ \A a \in Agents : a_pc[a] = "idle"
        /\ h_pc' = "issued"
        /\ LET share == DivideStepsAndEpisodes(steps, episodes, NAgents)
           IN  /\ a_call' = [a \in Agents |->
                     Call("heatup", share.steps, share.episodes, None, None)]
               /\ a_limit' = [a \in Agents |->
                     [step |-> Limit(step_counter[a].heatup, share.steps),
                      episode |-> Limit(episode_counter[a].heatup, share.episodes)]]
        /\ n_calls' = [a \in Agents |-> n_calls[a] + 1]
        /\ episodes_data' = [a \in Agents |-> <<>>]
        /\ resets' = [a \in Agents |-> <<>>]
        /\ pushed' = [a \in Agents |-> <<>>]
        /\ a_start' = [a \in Agents |-> Counters(a)]
        /\ a_pc' = [a \in Agents |-> "test"]
        /\ UNCHANGED <<step_counter, episode_counter, lock, replay_len,
                       replay_too_small, queried, seeds, options, n_steps_episode,
                       u_results, a_ret>>
        /\ UNCHANGED merged
        /\ UNCHANGED <<eve, par, playing, split, reader>>

\* EpisodeCounter.__iadd__: self.exploration += other.exploration and
\* self.eval += other.eval (the evaluation field); the counter it is
\* declared on has no heatup field, and self's other fields stay.
Merge(self, other) ==
    [f \in DOMAIN self |->
        IF f \in {"exploration", "evaluation"} THEN self[f] + other[f] ELSE self[f]]

\* The counters of the agents in S, merged one by one into acc.
RECURSIVE MergeAll(_, _)
MergeAll(acc, S) ==
    IF S = {} THEN acc
    ELSE LET a == CHOOSE x \in S : TRUE
         IN  MergeAll(Merge(acc, episode_counter[a]), S \ {a})

\* Every agent's result is in: for agent in self.agents: result += ...
HeatupMerge ==
    /\ h_pc = "issued"
    /\ \A a \in Agents : a_pc[a] = "idle"
    /\ merged' = MergeAll(EpisodeCounter, Agents)
    /\ h_pc' = "merged"
    /\ UNCHANGED <<eve, par, playing, split, single, reader>>

NextHeatup ==
    \/ HeatupFanOut
    \/ \E a \in Agents : Collecting(a)
    \/ HeatupMerge

SpecHeatup == Init /\ [][NextHeatup]_vars

----------------------------------------------------------------------------
(* Properties of the budget split.                                         *)

\* What agents 1..n were handed of one budget, added up.
RECURSIVE Total(_, _, _)
Total(shares, field, n) ==
    IF n = 0 THEN 0 ELSE shares[n][field].n + Total(shares, field, n - 1)

\* One budget was split as a ceiling division: every agent holds the same
\* natural number, and together they hold at least the budget and at most
\* budget + n_agents - 1; an unbounded budget is unbounded for every agent.
SplitOf(budget, field) ==
    LET n == d_in.n_agents
        shares == d_out.shares
    IN  IF budget.finite
        THEN /\ \A a \in 1..n :
                  /\ shares[a][field].finite
                  /\ shares[a][field].n \in Nat
                  /\ shares[a][field] = shares[1][field]
             /\ Total(shares, field, n) >= budget.n
             /\ Total(shares, field, n) <= budget.n + n - 1
        ELSE \A a \in 1..n : shares[a][field] = inf

\* C21: for every n_agents >= 1 and every finite budget, the split hands
\* n_agents equal integer shares (ceil(budget / n_agents) each) that add up
\* to at least the budget and at most budget + n_agents - 1; an unbounded
\* budget stays unbounded for every agent; the steps shares follow from the
\* steps budget alone and the episodes shares from the episodes budget alone.
BudgetSplit ==
    (d_in.op /= "none" /\ d_out.raised = "none") =>
        /\ DOMAIN d_out.shares = 1..d_in.n_agents
        /\ SplitOf(d_in.steps, "steps")
        /\ SplitOf(d_in.episodes, "episodes")

\* A steps budget that n_agents > 1 does not divide was split, next to an
\* unbounded episodes budget.
SplitWithRemainder ==
    /\ d_in.op = "collect" /\ d_out.raised = "none"
    /\ d_in.n_agents > 1
    /\ d_in.steps.finite /\ d_in.steps.n % d_in.n_agents /= 0
    /\ ~d_in.episodes.finite

----------------------------------------------------------------------------
(* Properties of the shared counters.                                      *)

\* C22: no torn counter reads: whatever the interleaving of the worker's
\* increments with the supervisor's reads, the counters the supervisor has
\* read (steps and episodes together) are the counters as they were after
\* some prefix of the worker's increments.
NoTornRead == r_pc = "done" => r_snap \in prefixes[1]


\* No field of a counter of any agent falls in this step.
NonDecreasing ==
    \A a \in Agents :
        /\ \A f \in StepFields : step_counter'[a][f] >= step_counter[a][f]
        /\ \A f \in EpisodeFields : episode_counter'[a][f] >= episode_counter[a][f]

WrittenUnderLock(a) ==
    /\ step_counter'[a] /= step_counter[a] =>
          lock[a].step = "worker" /\ n_sets' = n_sets
    /\ episode_counter'[a] /= episode_counter[a] =>
          lock[a].episode = "worker" /\ n_sets' = n_sets

\* C24: every write of a shared counter is made by the owning worker while
\* it holds that counter's lock; the supervisor side writes no counter field
\* and no write happens outside the lock.
OnlyWorkerWritesUnderLock == [][\A a \in Agents : WrittenUnderLock(a)]_vars


----------------------------------------------------------------------------
(* Properties of the Local Agent's methods.                                *)

\* The steps of the episodes in a result, added up.
RECURSIVE Steps(_)
Steps(data) == IF data = <<>> THEN 0 ELSE Head(data) + Steps(Tail(data))

\* The episodes in the results of the agents in S, counted.
RECURSIVE Produced(_)
Produced(S) ==
    IF S = {} THEN 0
    ELSE LET a == CHOOSE x \in S : TRUE
         IN  Len(a_ret[a].data) + Produced(S \ {a})

\* Agent a's heatup counters rose by what its result holds: one per episode,
\* and the steps of those episodes.
HeatupCountedBy(a) ==
    /\ episode_counter[a].heatup - a_start[a].episode.heatup = Len(a_ret[a].data)
    /\ step_counter[a].heatup - a_start[a].step.heatup = Steps(a_ret[a].data)

\* C25: once a heatup fanned out to every worker has returned all its
\* results, the heatup field of the merged episode counter is the number of
\* episodes the workers returned; per worker the heatup episode counter rose
\* by the number of episodes in its result and the heatup step counter by
\* the steps of those episodes.
MergedHeatupCountsEpisodes ==
    h_pc = "merged" =>
        /\ merged.heatup = Produced(Agents)
        /\ \A a \in Agents : HeatupCountedBy(a)


\* The last call on the first agent was an update, and it is over.
UpdateOver == a_call[1].method = "update" /\ a_pc[1] \in {"idle", "raised"}

\* C26: an update returns an empty result, makes no optimisation call and
\* leaves the update step counter as it was exactly when the replay buffer
\* holds fewer transitions than its batch size (or the step budget is 0),
\* and that is never an error; with a batch's worth of transitions or more
\* and a positive budget it makes optimisation steps.
UpdateNoOpIffBelowBatch ==
    UpdateOver =>
        IF replay_len[1] < BatchSize \/ a_call[1].steps = Finite(0)
        THEN /\ a_ret[1] = Returned("update", <<>>)
             /\ u_results[1] = 0
             /\ step_counter[1].update = a_start[1].step.update
        ELSE step_counter[1].update > a_start[1].step.update


\* The last call on the first agent was an evaluate with no step and no
\* episode limit, it is over, and no environment error cut it short.
UnlimitedEvaluateOver ==
    /\ a_call[1].method = "evaluate" /\ a_pc[1] \in {"idle", "raised"}
    /\ a_call[1].steps = inf /\ a_call[1].episodes = inf
    /\ a_ret[1].exc /= "RuntimeError"

\* One episode was run per element of the list, and the env.reset of the
\* i-th episode received the i-th element from the end.
OnePerElementFromTheEnd(l, field) ==
    /\ Len(resets[1]) = Len(l)
    /\ \A i \in 1..Len(l) : resets[1][i][field] = <<l[Len(l) - i + 1]>>
    /\ Len(l) > 0 => a_ret[1].kind = "list" /\ Len(a_ret[1].data) = Len(l)

\* C27: evaluate given a list of k seeds and no step or episode limit runs
\* exactly k episodes, takes the seeds from the end of the list, and the
\* env.reset of each episode receives the seed popped for it; the same holds
\* for a list of reset options (alone, or next to as many seeds).
EvaluateRunsSeedsFromTheEnd ==
    UnlimitedEvaluateOver =>
        LET s == a_call[1].seeds
            o == a_call[1].options
        IN  /\ (s.given /\ (~o.given \/ Len(o.list) = Len(s.list))) =>
                  OnePerElementFromTheEnd(s.list, "seed")
            /\ (o.given /\ (~s.given \/ Len(s.list) = Len(o.list))) =>
                  OnePerElementFromTheEnd(o.list, "options")

\* An evaluate of the seeds [1, 2] with no options and no limit has returned.
EvaluatedTwoSeeds ==
    /\ UnlimitedEvaluateOver /\ a_pc[1] = "idle"
    /\ a_call[1].seeds = List(<<1, 2>>) /\ a_call[1].options = None
    /\ Len(a_ret[1].data) = 2


\* A limit of the running call has been reached.
LimitHit ==
    \/ ~Below(step_counter[1].evaluation, a_limit[1].step)
    \/ ~Below(episode_counter[1].evaluation, a_limit[1].episode)

\* C28: evaluate's loop ends only when the seed / option lists it was given
\* are used up or a step or episode limit is hit; given no seeds and no
\* options it keeps running episodes until a limit is hit.
EvaluateEndsOnListsOrLimit ==
    (a_call[1].method = "evaluate" /\ a_pc[1] = "idle") =>
        \/ /\ a_call[1].seeds.given \/ a_call[1].options.given
           /\ Not(seeds[1]) /\ Not(options[1])
        \/ LimitHit



\* The first agent is in, or has just left, a heatup or an explore.
InCollect == a_call[1].method \in {"heatup", "explore"}

\* The counters of the phase the first agent's call counts in.
PhaseSteps == step_counter[1][Phase(a_call[1].method)]
PhaseEpisodes == episode_counter[1][Phase(a_call[1].method)]

\* The episodes pushed by the call are the episodes of data, each one once
\* and in the same order.
PushedOnceInOrder(data) ==
    /\ Len(pushed[1]) = Len(data)
    /\ \A i \in 1..Len(data) :
          pushed[1][i] = [episode |-> i, steps |-> data[i]]

\* C31: heatup and explore start an episode only while the phase's step
\* counter is below the step limit and its episode counter below the episode
\* limit, and return once either limit is reached; the episode counter never
\* exceeds its limit, the step counter exceeds its limit by less than the
\* steps of the last episode; the episodes returned are the episodes pushed
\* to the replay buffer, each once and in the order returned.
CollectStopsAtLimits ==
    InCollect =>
        /\ a_pc[1] = "lock_episode" =>
              /\ Below(PhaseSteps, a_limit[1].step)
              /\ Below(PhaseEpisodes, a_limit[1].episode)
        /\ ~Above(PhaseEpisodes, a_limit[1].episode)
        /\ Above(PhaseSteps, a_limit[1].step) =>
              /\ episodes_data[1] /= <<>>
              /\ PhaseSteps - episodes_data[1][Len(episodes_data[1])]
                    < a_limit[1].step.n
        /\ (a_pc[1] = "idle" /\ a_ret[1].kind = "list") =>
              /\ \/ ~Below(PhaseSteps, a_limit[1].step)
                 \/ ~Below(PhaseEpisodes, a_limit[1].episode)
              /\ a_ret[1].data = episodes_data[1]
              /\ PushedOnceInOrder(a_ret[1].data)

\* An explore has returned two episodes, the second of which took the step
\* counter past the step limit.
ExploredPastStepLimit ==
    /\ a_call[1].method = "explore" /\ a_pc[1] = "idle" /\ a_ret[1].kind = "list"
    /\ Len(a_ret[1].data) = 2 /\ Len(pushed[1]) = 2
    /\ Above(step_counter[1].exploration, a_limit[1].step)



\* The step is an update call on the first agent.
UpdateCalled == n_calls'[1] /= n_calls[1] /\ a_call'[1].method = "update"

\* C32: the replay-too-small guard is a one-way latch: it starts true; an
\* update call asks for the buffer's length only while the latch is true,
\* and then sets it to whether the buffer is still too small; once false the
\* latch stays false, and no later update call asks for the length.
ReplayTooSmallLatch ==
    /\ replay_too_small[1]
    /\ [][(/\ UpdateCalled => queried'[1] = replay_too_small[1]
           /\ (UpdateCalled /\ replay_too_small[1]) =>
                 replay_too_small'[1] = TooSmall(replay_len[1])
           /\ ~replay_too_small[1] => ~replay_too_small'[1]
           /\ ~UpdateCalled => replay_too_small'[1] = replay_too_small[1])]_vars

\* A second update call found the latch false and did not ask for the
\* length.
UpdatedWithoutQuery ==
    /\ a_call[1].method = "update" /\ n_calls[1] = 2
    /\ ~replay_too_small[1] /\ ~queried[1]
    /\ step_counter[1].update > 0 /\ a_start[1].step.update > 0



\* C35: evaluate never starts an episode when the evaluation step counter or
\* episode counter has reached its limit, and the evaluation episode counter
\* never exceeds the episode limit in force.
EvaluateStaysWithinLimits ==
    a_call[1].method = "evaluate" =>
        /\ a_pc[1] = "lock_episode" =>
              /\ Below(step_counter[1].evaluation, a_limit[1].step)
              /\ Below(episode_counter[1].evaluation, a_limit[1].episode)
        /\ ~Above(episode_counter[1].evaluation, a_limit[1].episode)



\* The last call on the first agent was an evaluate given both a seeds and
\* an options list.
EvaluateWithBoth ==
    /\ a_call[1].method = "evaluate"
    /\ a_call[1].seeds.given /\ a_call[1].options.given

\* The shorter of two lengths.
Min(m, n) == IF m < n THEN m ELSE n

\* A step or episode limit of the evaluate has been exceeded.
LimitExceeded ==
    \/ Above(step_counter[1].evaluation, a_limit[1].step)
    \/ Above(episode_counter[1].evaluation, a_limit[1].episode)

\* C36: an evaluate given both seeds and options takes one seed and one
\* option per episode, each from the end of its list, and returns only when
\* both lists are empty (or a limit is exceeded); given lists of different
\* lengths it plays as many episodes as the shorter list has elements, pops
\* from the used-up list and raises, returning none of the episodes played
\* (unless a limit ended it before).
EvaluateConsumesBothLists ==
    EvaluateWithBoth =>
        LET s == a_call[1].seeds.list
            o == a_call[1].options.list
            n == Len(resets[1])
        IN  /\ n <= Min(Len(s), Len(o))
            /\ \A i \in 1..n :
                  /\ resets[1][i].seed = <<s[Len(s) - i + 1]>>
                  /\ resets[1][i].options = <<o[Len(o) - i + 1]>>
            /\ a_ret[1].exc /= "IndexError" =>
                  /\ Len(seeds[1].list) = Len(s) - n
                  /\ Len(options[1].list) = Len(o) - n
            /\ (a_pc[1] = "idle" /\ a_ret[1].kind = "list") =>
                  \/ Not(seeds[1]) /\ Not(options[1])
                  \/ LimitExceeded
            /\ (a_pc[1] \in {"idle", "raised"} /\ Len(s) /= Len(o)
                  /\ a_ret[1].exc /= "RuntimeError" /\ ~LimitExceeded) =>
                  /\ a_ret[1] = Raised("evaluate", "IndexError")
                  /\ n = Min(Len(s), Len(o))

\* An evaluate of two seeds and one option has played one episode and then
\* raised IndexError at the pop from the empty options list.
EvaluateRaisedOnShorterList ==
    /\ EvaluateWithBoth /\ a_pc[1] = "raised"
    /\ a_call[1].seeds = List(<<1, 2>>) /\ a_call[1].options = List(<<1>>)
    /\ a_ret[1] = Raised("evaluate", "IndexError")
    /\ Len(episodes_data[1]) = 1



----------------------------------------------------------------------------
(* Properties of _play_episode.                                            *)

\* C37: every episode played holds at least one transition: the environment
\* is stepped at least once after each reset; the step count reported is the
\* number of transitions added and of env.step calls made; no env.step is
\* called once terminal or truncation is set, inside a block of consecutive
\* action steps either.
EpisodeCountsItsSteps ==
    /\ ~stepped_late
    /\ e_step_counter = env_steps
    /\ e_pc \in {"while", "for", "returned"} => transitions = env_steps
    /\ e_pc = "returned" =>
          /\ e_ret >= 1
          /\ e_ret = transitions /\ e_ret = env_steps
          /\ terminal \/ truncation

\* An episode has ended in the middle of a block of two consecutive action
\* steps: the block's first step set terminal, and the episode was returned
\* with that one step.
EndedInsideBlock ==
    /\ e_pc = "returned" /\ consecutive_actions = 2
    /\ e_ret = 1 /\ e_i = 1 /\ terminal



----------------------------------------------------------------------------
(* Properties of the update loop.                                          *)

\* By how much the update step counter of the first agent has risen in the
\* running call.
UpdateCounted == step_counter[1].update - a_start[1].step.update

\* C38: in an update the update step counter is incremented once per
\* optimisation call, before the call: when the update returns, the metrics
\* are as many as the optimisation calls and as the counter's increase, and
\* an update that entered its loop leaves the counter equal to the step
\* limit; when an optimisation call raises, the counter has counted the
\* failed step and no metrics are returned.
UpdateCountsBeforeCall ==
    a_call[1].method = "update" =>
        /\ a_pc[1] = "optimize" => UpdateCounted = u_results[1] + 1
        /\ a_pc[1] \in {"update_test", "lock_update", "count_update"} =>
              UpdateCounted = u_results[1]
        /\ (a_pc[1] = "idle" /\ a_ret[1].kind = "list") =>
              /\ Len(a_ret[1].data) = u_results[1]
              /\ UpdateCounted = u_results[1]
              /\ (~replay_too_small[1] /\ a_call[1].steps /= Finite(0)) =>
                    /\ u_results[1] > 0
                    /\ step_counter[1].update = a_limit[1].step.n
        /\ a_pc[1] = "raised" =>
              /\ UpdateCounted = u_results[1] + 1
              /\ a_ret[1].data = <<>>

\* An update of two steps has returned its two metrics.
UpdatedTwoSteps ==
    /\ a_call[1].method = "update" /\ a_pc[1] = "idle"
    /\ a_call[1].steps = Finite(2)
    /\ Len(a_ret[1].data) = 2 /\ UpdateCounted = 2



----------------------------------------------------------------------------
(* Properties of the mirrored counters.                                    *)

\* A field of the counters of the agents in S, added up.
RECURSIVE SumOf(_, _, _)
SumOf(counters, f, S) ==
    IF S = {} THEN 0
    ELSE LET a == CHOOSE x \in S : TRUE
         IN  counters[a][f] + SumOf(counters, f, S \ {a})

\* ParallelAgent.explore_step_counter, ...: the mirrors of all agents.
Aggregate(f) == SumOf(p_mirror, f, Agents)

\* C39: a worker writes its mirrors before it puts the reply: whenever a
\* reply of a worker (a result, or the state dict that ends its update) is
\* there for the orchestrator, that worker's mirrors hold what its own
\* counters hold, the task included; and once an operation of the
\* orchestrator has returned, every aggregate counter is the sum of the
\* workers' own counters.
MirrorsWrittenBeforeReply ==
    /\ \A a \in Agents :
          (p_result_queue[a] /= <<>> \/ p_model_queue[a] /= <<>>) =>
              p_mirror[a] = p_local[a]
    /\ o_pc = "idle" =>
          \A f \in MirrorFields : Aggregate(f) = SumOf(p_local, f, Agents)

\* An explore of the orchestrator has returned: every worker has played an
\* episode, one of them a longer one, and the aggregate holds them all.
ExploreAggregated ==
    /\ o_pc = "idle" /\ o_op = "explore"
    /\ Aggregate("explore_episode") = NAgents
    /\ Aggregate("explore_step") = NAgents + 1

====
